---- MODULE Spec2Model ----
(***************************************************************************)
(* Verification model of the PepperPL Discord bot core:                    *)
(*   - the alert matching engine  (utils/alerts.py, AlertsManager)         *)
(*   - the persistent store       (utils/db.py, Database)                  *)
(*   - the schedule evaluator     (utils/category_manager.py)              *)
(* Strings that the code inspects character by character (prices) are      *)
(* sequences of one-character strings; the character "l/" stands for the   *)
(* Polish letter l-with-stroke of the currency marker.                     *)
(***************************************************************************)
EXTENDS Integers, Sequences, FiniteSets, Bags, TLC

\* ------------------------------------------------------------------ bounds
MaxAlertId == 2
MaxDeals == 2
\* local days the tick loop is followed for
MaxDays == 2
\* calls of update_category_stats that are followed
MaxCalls == 3
\* deals of a paginator
MaxPages == 3
\* button interactions and message edits in flight
MaxInFlight == 2

\* --------------------------------------------------------- program constants
\* alerts.py:77  `if len(unique_queries) > 5`
SleepThreshold == 5

\* category_manager.py:104  within_time_window = time_diff_seconds < 120
WindowSeconds == 120
\* category_manager.py:116  if minutes_since_last_run < 30
DebounceMinutes == 30
\* category_manager.py:141  if days_since < 13
BiweeklyDays == 13
\* category_manager.py:27  if len(slug) > 50
SlugMaxLength == 50

\* ------------------------------------------------------------------ domains
Users == {1, 2}
Queries == {"laptop", "phone"}

\* A decimal number n/d (d a power of ten); 0.0 is 0/1.
Num(n, d) == [n |-> n, d |-> d]
Zero == Num(0, 1)
Leq(a, b) == a.n * b.d <= b.n * a.d
Lt(a, b) == a.n * b.d < b.n * a.d

\* Optional values: max_price REAL (NULL allowed), price string (may be absent).
NoMax == [some |-> FALSE, v |-> Zero]
SomeMax(x) == [some |-> TRUE, v |-> x]
NoPrice == [some |-> FALSE, v |-> <<>>]
SomePrice(s) == [some |-> TRUE, v |-> s]

MaxPrices == {NoMax, SomeMax(Num(1, 1)), SomeMax(Num(2, 1))}

\* The deals the Deal Source can return: link is the deal id, price the raw text.
DealPool ==
  { [link |-> "d1", price |-> SomePrice(<<"1", ",", "5", "0", " ", "z", "l/">>)],
    [link |-> "d2", price |-> SomePrice(<<"D", "a", "r", "m", "o", "w", "a">>)] }
Links == {d.link : d \in DealPool}

RECURSIVE SeqsUpTo(_, _)
SeqsUpTo(S, k) ==
  IF k = 0 THEN {<<>>}
  ELSE LET shorter == SeqsUpTo(S, k - 1)
       IN shorter \cup {Append(s, x) : s \in shorter, x \in S}

\* search_deals(query, limit, sort) -> {success, deals}
FetchResults ==
  {[success |-> TRUE, deals |-> ds] : ds \in SeqsUpTo(DealPool, MaxDeals)}
    \cup {[success |-> FALSE, deals |-> <<>>]}

Range(s) == {s[i] : i \in 1..Len(s)}
Perms(S) == {s \in SeqsUpTo(S, Cardinality(S)) : Len(s) = Cardinality(S) /\ Range(s) = S}

\* ---------------------------------------------------------- price normalizer
Digits == {"0", "1", "2", "3", "4", "5", "6", "7", "8", "9"}
DigitVal(c) ==
  CASE c = "0" -> 0 [] c = "1" -> 1 [] c = "2" -> 2 [] c = "3" -> 3 [] c = "4" -> 4
    [] c = "5" -> 5 [] c = "6" -> 6 [] c = "7" -> 7 [] c = "8" -> 8 [] c = "9" -> 9

\* str.lower() on the characters of the model's alphabet
LowerChar(c) ==
  CASE c = "A" -> "a" [] c = "B" -> "b" [] c = "C" -> "c" [] c = "D" -> "d"
    [] c = "E" -> "e" [] c = "F" -> "f" [] c = "G" -> "g" [] c = "H" -> "h"
    [] c = "I" -> "i" [] c = "J" -> "j" [] c = "K" -> "k" [] c = "L" -> "l"
    [] c = "M" -> "m" [] c = "N" -> "n" [] c = "O" -> "o" [] c = "P" -> "p"
    [] c = "Q" -> "q" [] c = "R" -> "r" [] c = "S" -> "s" [] c = "T" -> "t"
    [] c = "U" -> "u" [] c = "V" -> "v" [] c = "W" -> "w" [] c = "X" -> "x"
    [] c = "Y" -> "y" [] c = "Z" -> "z" [] c = "L/" -> "l/"
    [] OTHER -> c
Lower(s) == [i \in 1..Len(s) |-> LowerChar(s[i])]

\* str.replace(old, new): non-overlapping occurrences, left to right
RECURSIVE Replace(_, _, _)
Replace(s, old, new) ==
  IF Len(s) < Len(old) THEN s
  ELSE IF SubSeq(s, 1, Len(old)) = old
       THEN new \o Replace(SubSeq(s, Len(old) + 1, Len(s)), old, new)
       ELSE <<s[1]>> \o Replace(Tail(s), old, new)

\* `pat in s`
Contains(s, pat) ==
  \E i \in 1..(Len(s) - Len(pat) + 1) : SubSeq(s, i, i + Len(pat) - 1) = pat

RECURSIVE Pow10(_)
Pow10(k) == IF k = 0 THEN 1 ELSE 10 * Pow10(k - 1)

RECURSIVE DigitsValue(_)
DigitsValue(s) ==
  IF s = <<>> THEN 0 ELSE 10 * DigitsValue(SubSeq(s, 1, Len(s) - 1)) + DigitVal(s[Len(s)])

\* The characters str.isspace() holds for; "nbsp" stands for the no-break
\* space U+00A0.
Whitespace == {" ", "\t", "\n", "nbsp"}

\* The text without the whitespace at its ends (float() ignores it)
RECURSIVE Strip(_)
Strip(s) ==
  IF s = <<>> THEN s
  ELSE IF s[1] \in Whitespace THEN Strip(Tail(s))
  ELSE IF s[Len(s)] \in Whitespace THEN Strip(SubSeq(s, 1, Len(s) - 1))
  ELSE s

\* float(text): whitespace at the ends ignored, then sign, digits, at most one
\* point, at least one digit; anything else raises ValueError (ok = FALSE).
\* Exponents, underscores, "inf" and "nan" are outside the prices followed.
ParseFloat(text) ==
  LET s == Strip(text)
      signed == Len(s) > 0 /\ s[1] \in {"+", "-"}
      body == IF signed THEN Tail(s) ELSE s
      dots == {i \in 1..Len(body) : body[i] = "."}
      wellFormed == /\ \A i \in 1..Len(body) : body[i] \in Digits \cup {"."}
                    /\ Cardinality(dots) <= 1
                    /\ \E i \in 1..Len(body) : body[i] \in Digits
      digs == SelectSeq(body, LAMBDA c : c \in Digits)
      frac == IF dots = {} THEN 0 ELSE Len(body) - (CHOOSE i \in dots : TRUE)
      mag == DigitsValue(digs)
  IN IF wellFormed
     THEN [ok |-> TRUE, val |-> Num(IF signed /\ s[1] = "-" THEN 0 - mag ELSE mag, Pow10(frac))]
     ELSE [ok |-> FALSE, val |-> Zero]

\* AlertsManager._parse_price
ParsePrice(price_str) ==
  IF ~price_str.some \/ price_str.v = <<>> THEN Zero
  ELSE LET clean == Replace(Replace(Replace(Lower(price_str.v), <<"z", "l/">>, <<>>),
                                    <<" ">>, <<>>), <<",">>, <<".">>)
       IN IF \/ Contains(clean, <<"d", "a", "r", "m">>)
             \/ Contains(clean, <<"f", "r", "e", "e">>)
             \/ Contains(clean, <<"b", "e", "z", "p", "l/", "a", "t", "n">>)
          THEN Zero
          ELSE LET f == ParseFloat(clean) IN IF f.ok THEN f.val ELSE Zero

\* ------------------------------------------------------- schedule validator
\* An optional argument: None, or a value.
None == [some |-> FALSE, v |-> <<>>]
Some(x) == [some |-> TRUE, v |-> x]

\* A character of the class [lo-hi] of digits
DigitIn(c, lo, hi) == c \in Digits /\ DigitVal(c) >= lo /\ DigitVal(c) <= hi

\* category_manager.py:51  ([0-1]?[0-9]|2[0-3]):([0-5][0-9]) matching all of s
TimeBody(s) ==
  \/ /\ Len(s) = 4
     /\ s[1] \in Digits
     /\ s[2] = ":"
     /\ DigitIn(s[3], 0, 5)
     /\ s[4] \in Digits
  \/ /\ Len(s) = 5
     /\ \/ DigitIn(s[1], 0, 1) /\ s[2] \in Digits
        \/ s[1] = "2" /\ DigitIn(s[2], 0, 3)
     /\ s[3] = ":"
     /\ DigitIn(s[4], 0, 5)
     /\ s[5] \in Digits

\* category_manager.py:51-52  time_pattern.match(time): `^` is the start, `$`
\* the end of the string or the place before a newline that ends it
TimePatternMatch(time) ==
  \/ TimeBody(time)
  \/ /\ Len(time) > 0
     /\ time[Len(time)] = "\n"
     /\ TimeBody(SubSeq(time, 1, Len(time) - 1))

ValidFrequencies ==
  {<<"d", "a", "i", "l", "y">>, <<"w", "e", "e", "k", "l", "y">>, <<"b", "i", "w", "e", "e", "k", "l", "y">>, <<"m", "o", "n", "t", "h", "l", "y">>}
ValidDays ==
  {<<"m", "o", "n", "d", "a", "y">>, <<"t", "u", "e", "s", "d", "a", "y">>,
   <<"w", "e", "d", "n", "e", "s", "d", "a", "y">>, <<"t", "h", "u", "r", "s", "d", "a", "y">>,
   <<"f", "r", "i", "d", "a", "y">>, <<"s", "a", "t", "u", "r", "d", "a", "y">>,
   <<"s", "u", "n", "d", "a", "y">>}

\* `not day`: None or the empty string; `not date`: None or 0
Falsy(opt, empty) == ~opt.some \/ opt.v = empty

Rejected(reason) ==
  [raised |-> FALSE, value |-> [ok |-> FALSE, schedule |-> None, reason |-> reason]]
Admitted(schedule) ==
  [raised |-> FALSE, value |-> [ok |-> TRUE, schedule |-> Some(schedule), reason |-> "None"]]
Raises(exception) == [raised |-> TRUE, value |-> exception]

\* A validator without the test of category_manager.py:69-70.
ParseScheduleUnguarded(frequency, time, day, date) ==
  LET type == Lower(frequency)
      schedule == [type |-> type, time |-> time,
                   day |-> IF Falsy(day, <<>>) THEN None ELSE Some(Lower(day.v)),
                   date |-> date]
  IN IF ~TimePatternMatch(time) THEN Rejected("time-format")
     ELSE IF type \notin ValidFrequencies THEN Rejected("frequency")
     ELSE IF type \in {<<"w", "e", "e", "k", "l", "y">>, <<"b", "i", "w", "e", "e", "k", "l", "y">>} /\ Falsy(day, <<>>)
          THEN Rejected("day-required")
     ELSE IF type = <<"m", "o", "n", "t", "h", "l", "y">> /\ ~date.some THEN Raises("TypeError")
     ELSE IF type = <<"m", "o", "n", "t", "h", "l", "y">> /\ (date.v < 1 \/ date.v > 31)
          THEN Rejected("date-range")
     ELSE IF ~Falsy(day, <<>>) /\ Lower(day.v) \notin ValidDays THEN Rejected("day-name")
     ELSE Admitted(schedule)

\* CategoryManager.parse_schedule.  The returned reason is named by its kind;
\* comparing None with 1 at line 72 would raise TypeError.
ParseSchedule(frequency, time, day, date) ==
  LET type == Lower(frequency)
      schedule == [type |-> type, time |-> time,
                   day |-> IF Falsy(day, <<>>) THEN None ELSE Some(Lower(day.v)),
                   date |-> date]
  IN IF ~TimePatternMatch(time) THEN Rejected("time-format")
     ELSE IF type \notin ValidFrequencies THEN Rejected("frequency")
     ELSE IF type \in {<<"w", "e", "e", "k", "l", "y">>, <<"b", "i", "w", "e", "e", "k", "l", "y">>} /\ Falsy(day, <<>>)
          THEN Rejected("day-required")
     ELSE IF type = <<"m", "o", "n", "t", "h", "l", "y">> /\ Falsy(date, 0) THEN Rejected("date-required")
     ELSE IF type = <<"m", "o", "n", "t", "h", "l", "y">> /\ ~date.some THEN Raises("TypeError")
     ELSE IF type = <<"m", "o", "n", "t", "h", "l", "y">> /\ (date.v < 1 \/ date.v > 31)
          THEN Rejected("date-range")
     ELSE IF ~Falsy(day, <<>>) /\ Lower(day.v) \notin ValidDays THEN Rejected("day-name")
     ELSE Admitted(schedule)

\* ----------------------------------------------------------- slug validator
LowerLetters ==
  {"a", "b", "c", "d", "e", "f", "g", "h", "i", "j", "k", "l", "m",
   "n", "o", "p", "q", "r", "s", "t", "u", "v", "w", "x", "y", "z"}

\* The character class [a-z0-9-]
SlugChars == LowerLetters \cup Digits \cup {"-"}

SlugBody(s) == Len(s) >= 1 /\ \A i \in 1..Len(s) : s[i] \in SlugChars

\* category_manager.py:23  re.match(r'^[a-z0-9-]+$', slug): `$` is the end of
\* the string or the place before a newline that ends it
SlugPatternMatch(slug) ==
  \/ SlugBody(slug)
  \/ /\ Len(slug) > 0
     /\ slug[Len(slug)] = "\n"
     /\ SlugBody(SubSeq(slug, 1, Len(slug) - 1))

\* CategoryManager.validate_slug, the Deal Source answering answer to the
\* request for the slug: what it returns and the requests it made.
ValidateSlug(slug, answer) ==
  IF ~SlugPatternMatch(slug)
  THEN [returned |-> [raised |-> FALSE, value |-> [ok |-> FALSE, reason |-> "format"]],
        requests |-> <<>>]
  ELSE IF Len(slug) > SlugMaxLength
  THEN [returned |-> [raised |-> FALSE, value |-> [ok |-> FALSE, reason |-> "too-long"]],
        requests |-> <<>>]
  ELSE IF answer.success /\ answer.deals # <<>>
  THEN [returned |-> [raised |-> FALSE, value |-> [ok |-> TRUE, reason |-> "None"]],
        requests |-> <<slug>>]
  ELSE [returned |-> [raised |-> FALSE, value |-> [ok |-> FALSE, reason |-> "not-found"]],
        requests |-> <<slug>>]

\* ------------------------------------------------------------ persistent store
\* Table alerts: rows [id, user_id, query, max_price], UNIQUE(user_id, query),
\* id INTEGER PRIMARY KEY AUTOINCREMENT.  Table alert_history: the set of
\* (alert_id, deal_id) rows, PRIMARY KEY(alert_id, deal_id).  No connection sets
\* PRAGMA foreign_keys, so ON DELETE CASCADE of alert_history is not in force.

\* Database.get_all_unique_queries: SELECT DISTINCT query FROM alerts
GetAllUniqueQueries(tbl) == {a.query : a \in tbl}

\* A lookup that returns one watch of the query only.
GetOneAlertByQuery(tbl, query) ==
  {a \in tbl : a.query = query /\ \A b \in tbl : b.query = query => a.id <= b.id}

\* Database.get_alerts_by_query: SELECT * FROM alerts WHERE query = ?
GetAlertsByQuery(tbl, query) == {a \in tbl : a.query = query}

\* Database.is_deal_seen_by_alert
\* A lookup that never finds a mark.
NeverSeen(hist, alert_id, deal_id) == FALSE

IsDealSeenByAlert(hist, alert_id, deal_id) == <<alert_id, deal_id>> \in hist

\* Database.mark_deals_seen_batch: INSERT OR IGNORE of every record
\* A batch write that stores the first record only.
MarkFirstOnly(hist, records) ==
  IF records = <<>> THEN hist ELSE hist \cup {records[1]}

\* A batch write that stores nothing.
MarkNothing(hist, records) == hist

MarkDealsSeenBatch(hist, records) ==
  IF records = <<>> THEN hist ELSE hist \cup Range(records)

\* The same tables row by row: a table is the bag of its rows, a write returns
\* the table and whether the statement raised sqlite3.IntegrityError.
\* A plain INSERT: a row whose key is in the table is a constraint failure.
InsertPlain(rows, rec) ==
  IF BagIn(rec, rows) THEN [rows |-> rows, error |-> TRUE]
  ELSE [rows |-> rows (+) SetToBag({rec}), error |-> FALSE]

\* db.py:194-197  INSERT OR IGNORE INTO alert_history (alert_id, deal_id), the
\* table's PRIMARY KEY(alert_id, deal_id) of db.py:36-43
InsertOrIgnore(rows, rec) ==
  IF BagIn(rec, rows) THEN [rows |-> rows, error |-> FALSE]
  ELSE [rows |-> rows (+) SetToBag({rec}), error |-> FALSE]

\* db.py:320-323  INSERT OR IGNORE INTO category_sent_deals (category_id,
\* deal_id); the table is created by a migration script, its key is taken to be
\* (category_id, deal_id).
InsertOrIgnoreSent(rows, rec) ==
  IF BagIn(rec, rows) THEN [rows |-> rows, error |-> FALSE]
  ELSE [rows |-> rows (+) SetToBag({rec}), error |-> FALSE]

\* One statement of a batch, on the table it names.
InsertInto(table, rows, rec) ==
  IF table = "alert_history" THEN InsertOrIgnore(rows, rec)
  ELSE InsertOrIgnoreSent(rows, rec)

\* executemany in one transaction: an error leaves the table as it was.
RECURSIVE ExecuteMany(_, _, _)
ExecuteMany(table, rows, records) ==
  IF records = <<>> THEN [rows |-> rows, error |-> FALSE]
  ELSE LET first == InsertInto(table, rows, records[1])
       IN IF first.error THEN first
          ELSE LET rest == ExecuteMany(table, first.rows, Tail(records))
               IN IF rest.error THEN [rows |-> rows, error |-> TRUE] ELSE rest

\* Database.mark_deals_seen_batch, row by row
MarkDealsSeenBatchRows(rows, records) ==
  IF records = <<>> THEN [rows |-> rows, error |-> FALSE]
  ELSE ExecuteMany("alert_history", rows, records)

\* Database.mark_category_deals_sent_batch
MarkCategoryDealsSentBatch(rows, records) ==
  IF records = <<>> THEN [rows |-> rows, error |-> FALSE]
  ELSE ExecuteMany("category_sent_deals", rows, records)

\* The job-scoped ledger kept in the table of the watch-scoped one.
SentTableShared == "alert_history"

\* db.py:304, 312, 321  the table the job-scoped operations name
SentTable == "category_sent_deals"

\* Database.is_category_deal_sent
IsCategoryDealSent(rows, category_id, deal_id) == BagIn(<<category_id, deal_id>>, rows)

\* Table category_stats: rows [category_id, date, deals_found, deals_sent,
\* scrape_errors]; the upsert's conflict target is (category_id, date).
StatsKey(r) == <<r.category_id, r.date>>

\* An upsert whose update takes the new values for the old ones.
UpdateCategoryStatsOverwriting(tbl, category_id, date, deals_found, deals_sent, errors) ==
  {r \in tbl : StatsKey(r) # <<category_id, date>>}
    \cup {[category_id |-> category_id, date |-> date, deals_found |-> deals_found,
           deals_sent |-> deals_sent, scrape_errors |-> errors]}

\* Database.update_category_stats: INSERT ... ON CONFLICT(category_id, date)
\* DO UPDATE SET deals_found = deals_found + excluded.deals_found, ...
UpdateCategoryStatsRows(tbl, category_id, date, deals_found, deals_sent, errors) ==
  IF \E r \in tbl : StatsKey(r) = <<category_id, date>>
  THEN {IF StatsKey(r) = <<category_id, date>>
        THEN [r EXCEPT !.deals_found = @ + deals_found,
                       !.deals_sent = @ + deals_sent,
                       !.scrape_errors = @ + errors]
        ELSE r : r \in tbl}
  ELSE tbl \cup {[category_id |-> category_id, date |-> date, deals_found |-> deals_found,
                  deals_sent |-> deals_sent, scrape_errors |-> errors]}

\* An insert that ignores the rows already there.
AddAlertAppending(tbl, id, user_id, query, max_price) ==
  tbl \cup {[id |-> id, user_id |-> user_id, query |-> query, max_price |-> max_price]}

\* Database.add_alert: INSERT ... ON CONFLICT(user_id, query) DO UPDATE SET max_price
AddAlertRows(tbl, id, user_id, query, max_price) ==
  IF \E a \in tbl : a.user_id = user_id /\ a.query = query
  THEN {IF a.user_id = user_id /\ a.query = query
        THEN [a EXCEPT !.max_price = max_price] ELSE a : a \in tbl}
  ELSE tbl \cup {[id |-> id, user_id |-> user_id, query |-> query, max_price |-> max_price]}

\* A delete that takes the query's rows of the other users.
RemoveAlertRowsOfOthers(tbl, user_id, query) ==
  {a \in tbl : ~(a.user_id # user_id /\ a.query = query)}

\* Database.remove_alert: DELETE FROM alerts WHERE user_id = ? AND query = ?
RemoveAlertRows(tbl, user_id, query) ==
  {a \in tbl : ~(a.user_id = user_id /\ a.query = query)}

\* ------------------------------------------------------------------- state
VARIABLES
  alerts,          \* table alerts
  nextId,          \* the next AUTOINCREMENT id of table alerts
  alert_history,   \* table alert_history (the durable watch-scoped ledger)
  source,          \* per query, the listing the Deal Source answered since it last changed
  pc,              \* position of check_alerts: idle, fetch, subs, scan, sleep, flush, done
  unique_queries,  \* check_alerts local
  qi,              \* index of the current query in unique_queries
  result,          \* check_alerts local: the current query's fetch result
  subscribers,     \* check_alerts local
  di,              \* index of the current deal in result.deals
  si,              \* index of the current subscriber
  notifications,   \* check_alerts local (each entry also carries the watch id)
  batch_seen,      \* check_alerts local
  seen_in_cycle,   \* check_alerts local
  ledger0,         \* history: alert_history when the current cycle started
  emitted,         \* history: (watch id, deal id) pairs returned so far
  emittedTwice,    \* history: pairs returned more than once
  cleanRuns,       \* history: cycles completed since watches or source last changed
  fetched,         \* history: fetches per query in the current cycle
  fetchLog,        \* history: the answer to each query's last fetch in the current cycle
  prevFailed,      \* history: queries whose fetch failed in the previous cycle
  nc_notifications,\* shadow: notifications of the same cycle run without seen_in_cycle
  nc_batch_seen,   \* shadow: batch_seen of the same cycle run without seen_in_cycle
  dupFetched,      \* history: a fetch of the current cycle listed one deal twice
  lost,            \* history: pairs the last crash left marked in the ledger and not delivered
  now,             \* the local clock (datetime.now()) at the latest tick, in seconds
  offset,          \* local clock minus the store's clock (UTC), in seconds
  category,        \* the category_configs row of the scheduled job
  dueToday,        \* history: should_run_now was true at a tick of the current local day
  prevFire,        \* history: local time of the fire before the last one
  lastFire,        \* history: local time of the last fire
  verdict,         \* the outcome of one should_run_now(category) call at clock now
  snapshot,        \* the rows the current tick read and has not evaluated yet
  firedPaused,     \* history: a job was fired while its stored status was paused
  alert_history_rows,  \* table alert_history row by row (a bag of rows)
  category_sent_deals, \* table category_sent_deals (the durable job-scoped ledger)
  store_error,     \* history: a write to a ledger raised an error
  marked,          \* history: pairs given to mark_deals_seen_batch so far
  sent,            \* history: pairs given to mark_category_deals_sent_batch so far
  resubmitted,     \* history: the kinds of repeated pairs the writes were given
  category_stats,  \* table category_stats
  stats_calls,     \* history: the calls of update_category_stats, in order, with their date
  jobpc,           \* position of a job fire: idle, scan, flush
  job_deals,       \* job fire local: the deal ids fetched for the job
  job_di,          \* index of the current deal in job_deals
  job_batch,       \* job fire local: the pairs to mark
  job_ledger0,     \* history: the job-scoped ledger when the current fire started
  removedEarly,    \* history: watches removed since the last cycle ended, before the
                   \* running cycle read the subscribers of their query
  rejected,        \* history: (watch id, deal id) pairs a cycle put to the price test
                   \* and rejected
  args,            \* the arguments of one call of a validator or of the price normalizer
  returned,        \* what the call returned, or that it raised
  outbound,        \* the slugs the Deal Source was asked for (get_group_deals)
  current_page,    \* DealPaginator.current_page
  total_pages,     \* DealPaginator.total_pages
  btn_prev,        \* DealPaginator.btn_prev.disabled
  btn_next,        \* DealPaginator.btn_next.disabled
  shown,           \* the disabled flags of the message as the user sees it
  clicks,          \* button interactions sent and not handled yet
  edits,           \* edit_message calls made and not shown yet
  view_error       \* history: a callback of the view raised

storeVars == <<alerts, nextId, alert_history, source>>
localVars == <<unique_queries, qi, result, subscribers, di, si,
               notifications, batch_seen, seen_in_cycle>>
histVars == <<ledger0, emitted, emittedTwice, nc_notifications, nc_batch_seen,
              dupFetched, lost>>
runVars == <<cleanRuns, fetched, fetchLog, prevFailed>>
schedVars == <<now, offset, category, dueToday, prevFire, lastFire, verdict,
               snapshot, firedPaused>>
statVars == <<category_stats, stats_calls>>
fireVars == <<jobpc, job_deals, job_di, job_batch, job_ledger0>>
raceVars == <<removedEarly, rejected>>
callVars == <<args, returned, outbound>>
pageVars == <<current_page, total_pages, btn_prev, btn_next, shown, clicks, edits,
              view_error>>
jobVars == <<alert_history_rows, category_sent_deals, store_error, marked, sent,
             resubmitted, statVars, fireVars, raceVars, callVars, pageVars>>
vars == <<storeVars, pc, localVars, histVars, runVars, schedVars, jobVars>>

NoResult == [success |-> FALSE, deals |-> <<>>]
NoFetches == [q \in Queries |-> 0]
NoLog == [q \in Queries |-> NoResult]
Unlisted == [known |-> FALSE, r |-> NoResult]
Listed(r) == [known |-> TRUE, r |-> r]

InitEngine ==
  /\ alerts = {}
  /\ nextId = 1
  /\ alert_history = {}
  /\ pc = "idle"
  /\ unique_queries = <<>>
  /\ qi = 0
  /\ result = NoResult
  /\ subscribers = <<>>
  /\ di = 0
  /\ si = 0
  /\ notifications = <<>>
  /\ batch_seen = <<>>
  /\ seen_in_cycle = {}
  /\ ledger0 = {}
  /\ emitted = {}
  /\ emittedTwice = {}
  /\ cleanRuns = 0
  /\ fetched = NoFetches
  /\ fetchLog = NoLog
  /\ prevFailed = {}
  /\ nc_notifications = <<>>
  /\ nc_batch_seen = <<>>
  /\ dupFetched = FALSE
  /\ lost = {}
  /\ source = [q \in Queries |-> Unlisted]
  /\ alert_history_rows = EmptyBag
  /\ category_sent_deals = EmptyBag
  /\ store_error = FALSE
  /\ marked = {}
  /\ sent = {}
  /\ resubmitted = {}
  /\ category_stats = {}
  /\ stats_calls = <<>>
  /\ jobpc = "idle"
  /\ job_deals = <<>>
  /\ job_di = 0
  /\ job_batch = <<>>
  /\ job_ledger0 = {}
  /\ removedEarly = {}
  /\ rejected = {}

\* ------------------------------------------------- the watch commands (idle)
\* AlertsManager.add_alert -> Database.add_alert
AddAlert(user_id, query, max_price) ==
  /\ pc = "idle"
  /\ LET exists == \E a \in alerts : a.user_id = user_id /\ a.query = query
     IN /\ exists \/ nextId <= MaxAlertId
        /\ alerts' = AddAlertRows(alerts, nextId, user_id, query, max_price)
        /\ alerts' # alerts
        /\ nextId' = IF exists THEN nextId ELSE nextId + 1
  /\ UNCHANGED <<alert_history, source, pc, localVars, ledger0, emitted, emittedTwice,
                 nc_notifications, nc_batch_seen, dupFetched, lost>>

\* AlertsManager.remove_alert -> Database.remove_alert, at any point of a cycle
RemoveAlertNow(user_id, query) ==
  /\ alerts' = RemoveAlertRows(alerts, user_id, query)
  /\ alerts' # alerts
  /\ UNCHANGED <<nextId, alert_history, source, pc, localVars, ledger0, emitted,
                 emittedTwice, nc_notifications, nc_batch_seen, dupFetched, lost>>

\* AlertsManager.remove_alert -> Database.remove_alert
RemoveAlert(user_id, query) ==
  /\ pc = "idle"
  /\ alerts' = RemoveAlertRows(alerts, user_id, query)
  /\ alerts' # alerts
  /\ UNCHANGED <<nextId, alert_history, source, pc, localVars, ledger0, emitted,
                 emittedTwice, nc_notifications, nc_batch_seen, dupFetched, lost>>

\* The Deal Source's listing for one query changes between cycles: what it
\* answers next is open again.
SourceChange(query) ==
  /\ pc = "idle"
  /\ source[query].known
  /\ source' = [source EXCEPT ![query] = Unlisted]
  /\ UNCHANGED <<alerts, nextId, alert_history, pc, localVars, histVars>>

\* ------------------------------------------------------ the alert cycle
Key(n) == <<n.alert_id, n.deal.link>>
Keys(ns) == {Key(ns[i]) : i \in 1..Len(ns)}

\* A price test that ignores the ceiling.
AnyPrice(max_price, deal_price) == TRUE

\* alerts.py:66  price_ok = max_price is None or deal_price <= max_price
PriceOk(max_price, deal_price) == ~max_price.some \/ Leq(deal_price, max_price.v)

\* The notification of alerts.py:69-73; alert_id is carried for the properties
\* only (the code's dict has user_id, deal and query).
Notification(sub, deal, query) ==
  [user_id |-> sub.user_id, deal |-> deal, query |-> query, alert_id |-> sub.id]

\* The iteration with the cache looked up by deal alone, not by (watch, deal).
EvalSubDealKeyed(loc, hist, query, deal, deal_price, sub) ==
  LET cache_key == <<sub.id, deal.link>>
  IN IF \E k \in loc.seen_in_cycle : k[2] = deal.link THEN loc
     ELSE IF <<sub.id, deal.link>> \in hist
          THEN [loc EXCEPT !.seen_in_cycle = @ \cup {cache_key}]
          ELSE IF ~sub.max_price.some \/ Leq(deal_price, sub.max_price.v)
               THEN [notifications |-> Append(loc.notifications,
                                              Notification(sub, deal, query)),
                     batch_seen |-> Append(loc.batch_seen, cache_key),
                     seen_in_cycle |-> loc.seen_in_cycle \cup {cache_key}]
               ELSE loc

\* An iteration that also stages the mark of a deal the price test rejected.
EvalSubMarkingRejected(loc, hist, query, deal, deal_price, sub) ==
  LET cache_key == <<sub.id, deal.link>>
  IN IF cache_key \in loc.seen_in_cycle THEN loc
     ELSE IF <<sub.id, deal.link>> \in hist
          THEN [loc EXCEPT !.seen_in_cycle = @ \cup {cache_key}]
          ELSE IF ~sub.max_price.some \/ Leq(deal_price, sub.max_price.v)
               THEN [notifications |-> Append(loc.notifications,
                                              Notification(sub, deal, query)),
                     batch_seen |-> Append(loc.batch_seen, cache_key),
                     seen_in_cycle |-> loc.seen_in_cycle \cup {cache_key}]
               ELSE [loc EXCEPT !.batch_seen = Append(@, cache_key),
                                !.seen_in_cycle = @ \cup {cache_key}]

\* One iteration of `for sub in subscribers` (alerts.py:53-75) on the locals
\* loc = [notifications, batch_seen, seen_in_cycle].
EvalSub(loc, hist, query, deal, deal_price, sub) ==
  LET cache_key == <<sub.id, deal.link>>
  IN IF cache_key \in loc.seen_in_cycle THEN loc
     ELSE IF IsDealSeenByAlert(hist, sub.id, deal.link)
          THEN [loc EXCEPT !.seen_in_cycle = @ \cup {cache_key}]
          ELSE IF PriceOk(sub.max_price, deal_price)
               THEN [notifications |-> Append(loc.notifications, Notification(sub, deal, query)),
                     batch_seen |-> Append(loc.batch_seen, cache_key),
                     seen_in_cycle |-> loc.seen_in_cycle \cup {cache_key}]
               ELSE loc

\* The same iteration with seen_in_cycle removed (lines 59-60, 63 and 75 dropped):
\* every check goes to the durable ledger.
EvalSubNoCache(loc, hist, query, deal, deal_price, sub) ==
  LET cache_key == <<sub.id, deal.link>>
  IN IF IsDealSeenByAlert(hist, sub.id, deal.link) THEN loc
     ELSE IF PriceOk(sub.max_price, deal_price)
          THEN [notifications |-> Append(loc.notifications, Notification(sub, deal, query)),
                batch_seen |-> Append(loc.batch_seen, cache_key)]
          ELSE loc

\* alerts.py:38  the for loop takes the next query, or ends
NextQuery ==
  IF qi < Len(unique_queries)
  THEN pc' = "fetch" /\ qi' = qi + 1
  ELSE pc' = "flush" /\ qi' = qi

\* alerts.py:77-78  the throttle at the end of a query's iteration
EndOfQuery ==
  IF Len(unique_queries) > SleepThreshold
  THEN pc' = "sleep" /\ qi' = qi
  ELSE NextQuery

\* A failed fetch that ends the loop over the queries.
AbortCycle == pc' = "flush" /\ qi' = qi

\* alerts.py:41-42  a failed fetch: `continue`
OnFetchFailure == NextQuery

\* alerts.py:31-36, the distinct queries coming in one of the given orders
StartCycleFrom(orders) ==
  /\ pc = "idle"
  /\ \E order \in orders :
       /\ unique_queries' = order
       /\ pc' = IF order = <<>> THEN "flush" ELSE "fetch"
       /\ qi' = IF order = <<>> THEN 0 ELSE 1
  /\ ledger0' = alert_history
  /\ dupFetched' = FALSE
  /\ lost' = {}
  /\ UNCHANGED <<storeVars, result, subscribers, di, si, notifications, batch_seen,
                 seen_in_cycle, emitted, emittedTwice, nc_notifications, nc_batch_seen>>

\* SELECT DISTINCT query has no ORDER BY: any order
StartCycle == StartCycleFrom(Perms(GetAllUniqueQueries(alerts)))

HasRepeat(deals) ==
  \E i, j \in 1..Len(deals) : i # j /\ deals[i].link = deals[j].link

\* alerts.py:39-42, the Deal Source answering r
FetchStep(r) ==
  /\ pc = "fetch"
  /\ result' = r
  /\ IF ~r.success
     THEN OnFetchFailure
     ELSE pc' = "subs" /\ qi' = qi
  /\ dupFetched' = (dupFetched \/ HasRepeat(r.deals))
  /\ UNCHANGED <<alerts, nextId, alert_history, unique_queries, subscribers, di, si,
                 notifications, batch_seen, seen_in_cycle, ledger0, emitted,
                 emittedTwice, nc_notifications, nc_batch_seen, lost>>

\* The Deal Source answers anything.
Fetch == (\E r \in FetchResults : FetchStep(r)) /\ UNCHANGED source

\* The Deal Source answers what it listed for the query at the last fetch, or
\* anything when the listing changed since.
FetchListed ==
  \E r \in FetchResults :
    /\ pc = "fetch"
    /\ source[unique_queries[qi]].known => r = source[unique_queries[qi]].r
    /\ FetchStep(r)
    /\ source' = [source EXCEPT ![unique_queries[qi]] = Listed(r)]

\* alerts.py:44-47 (and an empty deal list: the deal loop has no iteration)
GetSubscribers ==
  /\ pc = "subs"
  /\ \E subs \in Perms(GetAlertsByQuery(alerts, unique_queries[qi])) :
       /\ subscribers' = subs
       /\ IF subs = <<>>
          THEN NextQuery /\ di' = 0 /\ si' = 0
          ELSE IF result.deals = <<>>
               THEN EndOfQuery /\ di' = 0 /\ si' = 0
               ELSE pc' = "scan" /\ qi' = qi /\ di' = 1 /\ si' = 1
  /\ UNCHANGED <<storeVars, unique_queries, result, notifications, batch_seen,
                 seen_in_cycle, histVars>>

\* alerts.py:49-78, one (deal, subscriber) iteration.  markEach is FALSE in the
\* code: the loop stages marks in batch_seen and does not write the ledger.
ScanStep(markEach) ==
  /\ pc = "scan"
  /\ LET query == unique_queries[qi]
         deal == result.deals[di]
         deal_price == ParsePrice(deal.price)
         sub == subscribers[si]
         new == EvalSub([notifications |-> notifications, batch_seen |-> batch_seen,
                         seen_in_cycle |-> seen_in_cycle],
                        alert_history, query, deal, deal_price, sub)
         nc == EvalSubNoCache([notifications |-> nc_notifications,
                               batch_seen |-> nc_batch_seen],
                              alert_history, query, deal, deal_price, sub)
     IN /\ notifications' = new.notifications
        /\ batch_seen' = new.batch_seen
        /\ seen_in_cycle' = new.seen_in_cycle
        /\ nc_notifications' = nc.notifications
        /\ nc_batch_seen' = nc.batch_seen
        /\ alert_history' = IF markEach
                            THEN MarkDealsSeenBatch(alert_history, new.batch_seen)
                            ELSE alert_history
  /\ IF si < Len(subscribers)
     THEN si' = si + 1 /\ di' = di /\ pc' = pc /\ qi' = qi
     ELSE IF di < Len(result.deals)
          THEN si' = 1 /\ di' = di + 1 /\ pc' = pc /\ qi' = qi
          ELSE si' = 0 /\ di' = 0 /\ EndOfQuery
  /\ UNCHANGED <<alerts, nextId, source, unique_queries, result, subscribers, ledger0,
                 emitted, emittedTwice, dupFetched, lost>>

ScanMarkingEach == ScanStep(TRUE)

Scan == ScanStep(FALSE)

\* alerts.py:78  asyncio.sleep(1.5) ends
Sleep ==
  /\ pc = "sleep"
  /\ NextQuery
  /\ UNCHANGED <<storeVars, unique_queries, result, subscribers, di, si, notifications,
                 batch_seen, seen_in_cycle, histVars>>

\* alerts.py:80-82  the batched write
Flush ==
  /\ pc = "flush"
  /\ alert_history' = MarkDealsSeenBatch(alert_history, batch_seen)
  /\ pc' = "done"
  /\ UNCHANGED <<alerts, nextId, source, localVars, histVars>>

\* alerts.py:85  `return notifications`: the caller has them for the
\* Notification Sink, the locals of the call are gone.
Return ==
  /\ pc = "done"
  /\ pc' = "idle"
  /\ emitted' = emitted \cup Keys(notifications)
  /\ emittedTwice' = emittedTwice
       \cup (Keys(notifications) \cap emitted)
       \cup {Key(notifications[i]) : i \in {j \in 1..Len(notifications) :
               \E k \in 1..Len(notifications) :
                  k # j /\ Key(notifications[k]) = Key(notifications[j])}}
  /\ unique_queries' = <<>>
  /\ qi' = 0
  /\ result' = NoResult
  /\ subscribers' = <<>>
  /\ notifications' = <<>>
  /\ batch_seen' = <<>>
  /\ seen_in_cycle' = {}
  /\ nc_notifications' = <<>>
  /\ nc_batch_seen' = <<>>
  /\ ledger0' = {}
  /\ dupFetched' = FALSE
  /\ UNCHANGED <<storeVars, di, si, lost>>

\* The process dies, or the cycle's task is cancelled, at an await of
\* check_alerts (alerts.py:35, 39, 44, 62, 78, 81; at 81 before or after the
\* commit of db.py:202): the locals are gone, the store stays.
Crash ==
  /\ pc \in {"fetch", "subs", "scan", "sleep", "flush", "done"}
  /\ lost' = (Keys(notifications) \cap alert_history) \ ledger0
  /\ pc' = "idle"
  /\ unique_queries' = <<>>
  /\ qi' = 0
  /\ result' = NoResult
  /\ subscribers' = <<>>
  /\ di' = 0
  /\ si' = 0
  /\ notifications' = <<>>
  /\ batch_seen' = <<>>
  /\ seen_in_cycle' = {}
  /\ nc_notifications' = <<>>
  /\ nc_batch_seen' = <<>>
  /\ ledger0' = {}
  /\ dupFetched' = FALSE
  /\ UNCHANGED <<storeVars, emitted, emittedTwice>>

\* ------------------------------------------------------ the schedule evaluator
\* Clock values are seconds; day 0 is a Monday and the first day of a month of
\* 31 days.
DaySeconds == 24 * 3600
DayOf(t) == t \div DaySeconds
Weekday(t) == DayOf(t) % 7
DayOfMonth(t) == (DayOf(t) % 31) + 1
Abs(x) == IF x < 0 THEN -x ELSE x

NoLastRun == [kind |-> "null", t |-> 0]      \* NULL
BadLastRun == [kind |-> "bad", t |-> 0]      \* a string fromisoformat rejects
Stamp(t) == [kind |-> "ts", t |-> t]         \* 'YYYY-MM-DD HH:MM:SS'

\* category_manager.py:89-91  schedule_time.split(':'), int() of the parts
ColonAt(time) == CHOOSE i \in 1..Len(time) : time[i] = ":"
ScheduleHour(time) == DigitsValue(SubSeq(time, 1, ColonAt(time) - 1))
ScheduleMinute(time) == DigitsValue(SubSeq(time, ColonAt(time) + 1, Len(time)))

\* category_manager.py:94-99  now.replace(hour, minute, second=0, microsecond=0)
ScheduledToday(cat, t) ==
  DayOf(t) * DaySeconds + ScheduleHour(cat.schedule_time) * 3600
    + ScheduleMinute(cat.schedule_time) * 60

\* The window test with the edge included.
WindowInclusive(cat, t) == Abs(t - ScheduledToday(cat, t)) <= WindowSeconds

\* The window test as an exact match of the scheduled second.
ExactTime(cat, t) == t = ScheduledToday(cat, t)

\* category_manager.py:103-104
WithinTimeWindow(cat, t) == Abs(t - ScheduledToday(cat, t)) < WindowSeconds

\* category_manager.py:110-120  fromisoformat(last_run) is compared with the
\* local now as it is stored; minutes_since_last_run is seconds / 60.
RanRecently(cat, t) ==
  /\ cat.last_run.kind = "ts"
  /\ t - cat.last_run.t < DebounceMinutes * 60

\* A day map that counts from Sunday.
DayMapFromSunday ==
  [d \in {"monday", "tuesday", "wednesday", "thursday", "friday", "saturday", "sunday"} |->
     CASE d = "sunday" -> 0 [] d = "monday" -> 1 [] d = "tuesday" -> 2
       [] d = "wednesday" -> 3 [] d = "thursday" -> 4 [] d = "friday" -> 5
       [] d = "saturday" -> 6]

\* category_manager.py:127-130
DayMap ==
  [d \in {"monday", "tuesday", "wednesday", "thursday", "friday", "saturday", "sunday"} |->
     CASE d = "monday" -> 0 [] d = "tuesday" -> 1 [] d = "wednesday" -> 2
       [] d = "thursday" -> 3 [] d = "friday" -> 4 [] d = "saturday" -> 5
       [] d = "sunday" -> 6]

\* should_run_now with a biweekly job treated as a weekly one.
ShouldRunNowWeekly(cat, t) ==
  IF ~WithinTimeWindow(cat, t) THEN FALSE
  ELSE IF RanRecently(cat, t) THEN FALSE
  ELSE IF cat.schedule_type = "daily" THEN TRUE
  ELSE IF cat.schedule_type \in {"weekly", "biweekly"}
       THEN cat.schedule_day \in DOMAIN DayMap /\ Weekday(t) = DayMap[cat.schedule_day]
  ELSE IF cat.schedule_type = "monthly" THEN DayOfMonth(t) = cat.schedule_date
  ELSE FALSE

\* category_manager.py:81-151
ShouldRunNow(cat, t) ==
  IF ~WithinTimeWindow(cat, t) THEN FALSE
  ELSE IF RanRecently(cat, t) THEN FALSE
  ELSE IF cat.schedule_type = "daily" THEN TRUE
  ELSE IF cat.schedule_type \in {"weekly", "biweekly"}
       THEN IF cat.schedule_day \notin DOMAIN DayMap
               \/ Weekday(t) # DayMap[cat.schedule_day]
            THEN FALSE
            ELSE IF /\ cat.schedule_type = "biweekly"
                    /\ cat.last_run.kind = "ts"
                    /\ (t - cat.last_run.t) \div DaySeconds < BiweeklyDays
                 THEN FALSE
                 ELSE TRUE
  ELSE IF cat.schedule_type = "monthly" THEN DayOfMonth(t) = cat.schedule_date
  ELSE FALSE

\* category_manager.py:112, 139  fromisoformat raises ValueError on a string
\* that is not a timestamp.
FromIsoFormatError(last_run) == IF last_run.kind = "bad" THEN "ValueError" ELSE "none"

\* A handler that catches nothing.
CaughtNothing == {}

\* category_manager.py:118, 143  except (ValueError, TypeError): pass
Caught == {"ValueError", "TypeError"}

\* The exception that leaves should_run_now, "none" when it returns.
Raised(cat, t) ==
  LET err == FromIsoFormatError(cat.last_run)
      escapes == cat.last_run.kind # "null" /\ err \notin Caught \cup {"none"}
  IN IF ~WithinTimeWindow(cat, t) THEN "none"
     ELSE IF escapes THEN err
     ELSE "none"

NoVerdict == [done |-> FALSE, due |-> FALSE, raised |-> "none"]

\* One call of should_run_now on the job, at the clock value now.
Evaluate ==
  /\ ~verdict.done
  /\ verdict' = [done |-> TRUE,
                 due |-> Raised(category, now) = "none" /\ ShouldRunNow(category, now),
                 raised |-> Raised(category, now)]
  /\ UNCHANGED <<now, offset, category, dueToday, prevFire, lastFire, snapshot,
                 firedPaused>>

\* db.py:284-290  last_run = CURRENT_TIMESTAMP, the store's clock (UTC)
UpdateCategoryLastRun(cat, utc) == [cat EXCEPT !.last_run = Stamp(utc)]

\* The seconds of the minute at which a tick can come: the earliest and the
\* latest, so that consecutive ticks are from 1 to 119 seconds apart.
TickSeconds == {0, 59}

\* The schedule times followed: the ends of the day and one inside it.
ScheduleTimes ==
  { <<"0", "0", ":", "0", "0">>, <<"0", "0", ":", "0", "1">>,
    <<"1", "2", ":", "0", "0">>, <<"2", "3", ":", "5", "8">>,
    <<"2", "3", ":", "5", "9">> }

Offsets == {-3600, 0, 3600}

DailyJob(time, last_run) ==
  [id |-> 1, status |-> "active", schedule_type |-> "daily", schedule_time |-> time,
   schedule_day |-> "none", schedule_date |-> 0, last_run |-> last_run]

NoFire == [some |-> FALSE, t |-> 0]
FireAt(t) == [some |-> TRUE, t |-> t]

\* One tick of the schedule loop, in the minute after the latest tick, at
\* second j of it: the active job is evaluated and, when due, fired and stamped.
Tick(j) ==
  LET t == (now \div 60 + 1) * 60 + j
      due == category.status = "active" /\ ShouldRunNow(category, t)
  IN /\ DayOf(t) <= MaxDays
     /\ now' = t
     /\ category' = IF due THEN UpdateCategoryLastRun(category, t - offset) ELSE category
     /\ dueToday' = IF DayOf(t) # DayOf(now) THEN due ELSE (dueToday \/ due)
     /\ prevFire' = IF due THEN lastFire ELSE prevFire
     /\ lastFire' = IF due THEN FireAt(t) ELSE lastFire
     /\ UNCHANGED <<offset, verdict, snapshot, firedPaused>>

\* db.py:292-299  SELECT * FROM category_configs WHERE status = 'active'
GetActiveCategoriesForSchedule(rows) == {c \in rows : c.status = "active"}

\* db.py:271-282  UPDATE category_configs SET status = ?
UpdateCategoryStatus(cat, status) == [cat EXCEPT !.status = status]

\* A tick at clock value t reads the active jobs; the rows are copies.
TickRead(t) ==
  /\ snapshot = <<>>
  /\ t > now
  /\ now' = t
  /\ \E rows \in Perms(GetActiveCategoriesForSchedule({category})) : snapshot' = rows
  /\ UNCHANGED <<offset, category, dueToday, prevFire, lastFire, verdict, firedPaused>>

\* The tick evaluates the next row it read; a due job is fired and stamped.
TickEval ==
  /\ snapshot # <<>>
  /\ LET due == ShouldRunNow(Head(snapshot), now)
     IN /\ category' = IF due THEN UpdateCategoryLastRun(category, now - offset)
                       ELSE category
        /\ firedPaused' = (firedPaused \/ (due /\ category.status = "paused"))
        /\ lastFire' = IF due THEN FireAt(now) ELSE lastFire
        /\ prevFire' = IF due THEN lastFire ELSE prevFire
  /\ snapshot' = Tail(snapshot)
  /\ UNCHANGED <<now, offset, dueToday, verdict>>

\* The pause / resume command, at any point of a tick.
SetStatus(status) ==
  /\ category.status # status
  /\ category' = UpdateCategoryStatus(category, status)
  /\ UNCHANGED <<now, offset, dueToday, prevFire, lastFire, verdict, snapshot,
                 firedPaused>>

\* ------------------------------------------------------------ specifications
\* The watch commands a specification explores: (user, query) pairs.
SlotsShared == {<<u, "laptop">> : u \in Users}
SlotsSolo == {<<1, q>> : q \in Queries}

\* The run history (cleanRuns, fetched, fetchLog, prevFailed) is kept only where
\* a property reads it; elsewhere it stays at its initial value.
Untracked == UNCHANGED <<runVars, schedVars, jobVars>>

\* Watch commands changed the watches, or the Deal Source its listing.
Changed == cleanRuns' = 0 /\ UNCHANGED <<fetched, fetchLog, prevFailed, schedVars, jobVars>>

LogFetch ==
  /\ fetched' = [fetched EXCEPT ![unique_queries[qi]] = @ + 1]
  /\ fetchLog' = [fetchLog EXCEPT ![unique_queries[qi]] = result']
  /\ UNCHANGED <<cleanRuns, prevFailed, schedVars, jobVars>>

Failed == {q \in Queries : fetched[q] > 0 /\ ~fetchLog[q].success}

KeepLog == UNCHANGED <<runVars, schedVars, jobVars>>

LogFlush ==
  /\ cleanRuns' = (IF cleanRuns < 2 THEN cleanRuns + 1 ELSE cleanRuns)
  /\ UNCHANGED <<fetched, fetchLog, prevFailed, schedVars, jobVars>>

LogEnd ==
  /\ fetched' = NoFetches
  /\ fetchLog' = NoLog
  /\ prevFailed' = Failed
  /\ UNCHANGED <<cleanRuns, schedVars, jobVars>>

\* No call of a validator in progress.
NoArgs == <<>>
NoReturn == [raised |-> FALSE, value |-> <<>>]

InitCalls ==
  /\ args = NoArgs
  /\ returned = NoReturn
  /\ outbound = <<>>

\* No paginator on screen: the state of a DealPaginator of one deal.
Flags(prev, next) == [prev |-> prev, next |-> next]

InitView ==
  /\ current_page = 0
  /\ total_pages = 1
  /\ btn_prev = TRUE
  /\ btn_next = TRUE
  /\ shown = Flags(TRUE, TRUE)
  /\ clicks = <<>>
  /\ edits = <<>>
  /\ view_error = FALSE

\* The schedule loop at rest, in the specifications of the alert cycle.
InitClock ==
  /\ now = 0
  /\ offset = 0
  /\ category = DailyJob(<<"0", "0", ":", "0", "0">>, NoLastRun)
  /\ dueToday = FALSE
  /\ prevFire = NoFire
  /\ lastFire = NoFire
  /\ verdict = NoVerdict
  /\ snapshot = <<>>
  /\ firedPaused = FALSE

Init == InitEngine /\ InitClock /\ InitCalls /\ InitView

\* Two users watching one query, the Deal Source answering anything.
Next ==
  \/ (\E s \in SlotsShared, mp \in MaxPrices : AddAlert(s[1], s[2], mp)) /\ Untracked
  \/ (\E s \in SlotsShared : RemoveAlert(s[1], s[2])) /\ Untracked
  \/ StartCycle /\ Untracked
  \/ Fetch /\ Untracked
  \/ GetSubscribers /\ Untracked
  \/ Scan /\ Untracked
  \/ Flush /\ Untracked
  \/ Return /\ Untracked

Spec == Init /\ [][Next]_vars

\* The same, with cycles that a crash or a cancellation can cut short.
NextCrash == Next \/ (Crash /\ Untracked)

SpecCrash == Init /\ [][NextCrash]_vars

\* Two users watching one query, the Deal Source's listings persisting until
\* they change, the run history kept.
NextListed ==
  \/ (\E s \in SlotsShared, mp \in MaxPrices : AddAlert(s[1], s[2], mp)) /\ Changed
  \/ (\E s \in SlotsShared : RemoveAlert(s[1], s[2])) /\ Changed
  \/ (\E q \in Queries : SourceChange(q)) /\ Changed
  \/ StartCycle /\ KeepLog
  \/ FetchListed /\ LogFetch
  \/ GetSubscribers /\ KeepLog
  \/ Scan /\ KeepLog
  \/ Flush /\ LogFlush
  \/ Return /\ LogEnd

SpecListed == Init /\ [][NextListed]_vars

\* One user watching several queries, the Deal Source answering anything, the
\* run history kept.
NextSolo ==
  \/ (\E s \in SlotsSolo : AddAlert(s[1], s[2], NoMax)) /\ Changed
  \/ (\E s \in SlotsSolo : RemoveAlert(s[1], s[2])) /\ Changed
  \/ StartCycle /\ KeepLog
  \/ Fetch /\ LogFetch
  \/ GetSubscribers /\ KeepLog
  \/ Scan /\ KeepLog
  \/ Flush /\ LogFlush
  \/ Return /\ LogEnd

SpecSolo == Init /\ [][NextSolo]_vars

\* The schedule loop alone: one daily job, ticks from the last minute before
\* local day 1, the local clock at a fixed offset from the store's clock.
InitSched ==
  /\ InitEngine
  /\ InitCalls
  /\ InitView
  /\ now = DaySeconds - 60
  /\ offset \in Offsets
  /\ \E time \in ScheduleTimes, lr \in {NoLastRun, BadLastRun} :
       category = DailyJob(time, lr)
  /\ dueToday = FALSE
  /\ prevFire = NoFire
  /\ lastFire = NoFire
  /\ verdict = NoVerdict
  /\ snapshot = <<>>
  /\ firedPaused = FALSE

NextSched ==
  (\E j \in TickSeconds : Tick(j))
    /\ UNCHANGED <<storeVars, pc, localVars, histVars, runVars, jobVars>>

SpecSched == InitSched /\ [][NextSched]_vars

\* should_run_now as a function: any job of JobRows at any clock of Clocks.
At(day, hour, minute, second) == day * DaySeconds + hour * 3600 + minute * 60 + second

\* Seconds around a schedule time: both edges of the window and beyond them.
Drifts == {-180, -120, -119, -60, 0, 60, 119, 120, 180}

\* Days 0, 7 and 14 are Mondays and days 1, 8, 15 of the month; day 10 is a
\* Thursday; day 15 a Tuesday.
Clocks ==
  {At(14, 9, 0, 0) + x : x \in Drifts}
    \cup {At(d, 9, 0, 0) + x : d \in {0, 7, 10, 15}, x \in {-119, 0, 119}}
    \cup {At(14, 0, 0, 0) + x : x \in {0, 60, 119, 120}}
    \cup {At(14, 23, 59, 0) + x : x \in {-120, -119, 0, 59}}

LastRuns ==
  {NoLastRun, BadLastRun}
    \cup {Stamp(At(d, 9, 0, 0) + x - off) : d \in {0, 7}, x \in {-119, 119}, off \in Offsets}
    \cup {Stamp(At(d, 9, 0, 0)) : d \in {0, 4}}
    \cup {Stamp(At(14, 9, 0, 0) + x) : x \in {-1860, -1800, -1740, -60}}

JobRows ==
  [id : {1},
   status : {"active", "paused"},
   schedule_type : {"daily", "weekly", "biweekly", "monthly", "hourly"},
   schedule_time : {<<"0", "9", ":", "0", "0">>, <<"0", "0", ":", "0", "0">>,
                    <<"2", "3", ":", "5", "9">>},
   schedule_day : {"monday", "thursday", "none"},
   schedule_date : {0, 15},
   last_run : LastRuns]

InitEval ==
  /\ InitEngine
  /\ InitCalls
  /\ InitView
  /\ now \in Clocks
  /\ offset = 0
  /\ category \in JobRows
  /\ dueToday = FALSE
  /\ prevFire = NoFire
  /\ lastFire = NoFire
  /\ verdict = NoVerdict
  /\ snapshot = <<>>
  /\ firedPaused = FALSE

NextEval == Evaluate /\ UNCHANGED <<storeVars, pc, localVars, histVars, runVars, jobVars>>

SpecEval == InitEval /\ [][NextEval]_vars

\* The schedule loop with the pause command: one daily 09:00 job, ticks at
\* the clock values of Clocks.
InitPause ==
  /\ InitEngine
  /\ InitCalls
  /\ InitView
  /\ now = At(0, 9, 0, 0) - 180
  /\ offset = 0
  /\ \E st \in {"active", "paused"} :
       category = [DailyJob(<<"0", "9", ":", "0", "0">>, NoLastRun) EXCEPT !.status = st]
  /\ dueToday = FALSE
  /\ prevFire = NoFire
  /\ lastFire = NoFire
  /\ verdict = NoVerdict
  /\ snapshot = <<>>
  /\ firedPaused = FALSE

NextPause ==
  \/ (\E t \in Clocks : TickRead(t))
       /\ UNCHANGED <<storeVars, pc, localVars, histVars, runVars, jobVars>>
  \/ TickEval /\ UNCHANGED <<storeVars, pc, localVars, histVars, runVars, jobVars>>
  \/ (\E st \in {"active", "paused"} : SetStatus(st))
       /\ UNCHANGED <<storeVars, pc, localVars, histVars, runVars, jobVars>>

SpecPause == InitPause /\ [][NextPause]_vars

\* The write paths of the two ledgers, called with any batch, between and
\* during alert cycles.  Watch 1 and job 1 have the same numeric id.
WatchPairs == {<<1, l>> : l \in Links}
JobPairs == {<<1, l>> : l \in Links}

\* What a batch repeats: a pair the table holds, a pair of the batch itself.
Repeats(rows, records) ==
  (IF \E i \in 1..Len(records) : BagIn(records[i], rows) THEN {"recorded"} ELSE {})
    \cup (IF \E i, j \in 1..Len(records) : i # j /\ records[i] = records[j]
          THEN {"twice"} ELSE {})

\* A call of mark_deals_seen_batch(records), on both views of alert_history
MarkSeen(records) ==
  LET w == MarkDealsSeenBatchRows(alert_history_rows, records)
  IN /\ alert_history' = MarkDealsSeenBatch(alert_history, records)
     /\ alert_history_rows' = w.rows
     /\ store_error' = (store_error \/ w.error)
     /\ marked' = marked \cup Range(records)
     /\ resubmitted' = resubmitted
          \cup {<<"seen", t>> : t \in Repeats(alert_history_rows, records)}
     /\ UNCHANGED <<category_sent_deals, sent, statVars, fireVars, raceVars, callVars,
                    pageVars>>

\* mark_deals_seen_batch called outside a cycle
MarkSeenDirect(records) ==
  /\ pc = "idle"
  /\ MarkSeen(records)
  /\ UNCHANGED <<alerts, nextId, source, pc, localVars, histVars, runVars, schedVars>>

\* alerts.py:80-82 with the table row by row
FlushRows == Flush /\ MarkSeen(batch_seen) /\ UNCHANGED <<runVars, schedVars>>

\* A call of mark_category_deals_sent_batch(records), at any point of a cycle
MarkSent(records) ==
  LET w == MarkCategoryDealsSentBatch(category_sent_deals, records)
  IN /\ category_sent_deals' = w.rows
     /\ store_error' = (store_error \/ w.error)
     /\ sent' = sent \cup Range(records)
     /\ resubmitted' = resubmitted
          \cup {<<"sent", t>> : t \in Repeats(category_sent_deals, records)}
     /\ UNCHANGED <<storeVars, pc, localVars, histVars, runVars, schedVars,
                    alert_history_rows, marked, statVars, fireVars, raceVars, callVars,
                    pageVars>>

NextStore ==
  \/ AddAlert(1, "laptop", NoMax) /\ Untracked
  \/ RemoveAlert(1, "laptop") /\ Untracked
  \/ StartCycle /\ Untracked
  \/ Fetch /\ Untracked
  \/ GetSubscribers /\ Untracked
  \/ Scan /\ Untracked
  \/ FlushRows
  \/ Return /\ Untracked
  \/ \E records \in SeqsUpTo(WatchPairs, 2) : MarkSeenDirect(records)
  \/ \E records \in SeqsUpTo(JobPairs, 2) : MarkSent(records)

SpecStore == Init /\ [][NextStore]_vars

\* The job statistics: update_category_stats called for two jobs with any of a
\* few value triples, over two dates of the store's clock.
StatsJobs == {1, 2}
StatsValues == {<<0, 0, 1>>, <<2, 1, 0>>, <<3, 3, 0>>}

\* db.py:339  DATE('now'): the date of the store's clock (UTC)
DateNow == DayOf(now - offset)

UpdateCategoryStats(category_id, deals_found, deals_sent, errors) ==
  /\ Len(stats_calls) < MaxCalls
  /\ category_stats' = UpdateCategoryStatsRows(category_stats, category_id, DateNow,
                                               deals_found, deals_sent, errors)
  /\ stats_calls' = Append(stats_calls,
                           [category_id |-> category_id, date |-> DateNow,
                            deals_found |-> deals_found, deals_sent |-> deals_sent,
                            scrape_errors |-> errors])
  /\ UNCHANGED <<storeVars, pc, localVars, histVars, runVars, schedVars,
                 alert_history_rows, category_sent_deals, store_error, marked, sent,
                 resubmitted, fireVars, raceVars, callVars, pageVars>>

\* The store's clock passes midnight.
NextDate ==
  /\ DateNow < 1
  /\ now' = now + DaySeconds
  /\ UNCHANGED <<storeVars, pc, localVars, histVars, runVars, jobVars, offset, category,
                 dueToday, prevFire, lastFire, verdict, snapshot, firedPaused>>

NextStats ==
  \/ \E j \in StatsJobs, v \in StatsValues : UpdateCategoryStats(j, v[1], v[2], v[3])
  \/ NextDate

SpecStats == Init /\ [][NextStats]_vars

\* An alert cycle and a job fire, each suspended at its store operations and
\* taking steps in any order.  The watch and the job both have id 1.  The fire
\* checks every fetched deal against the job-scoped ledger, then marks the new
\* ones in one batch.
LedgerRows(table) ==
  IF table = "alert_history" THEN alert_history_rows ELSE category_sent_deals

WriteLedger(table, records) ==
  IF table = "alert_history"
  THEN /\ alert_history' = MarkDealsSeenBatch(alert_history, records)
       /\ alert_history_rows' = MarkDealsSeenBatchRows(alert_history_rows, records).rows
       /\ UNCHANGED category_sent_deals
  ELSE /\ category_sent_deals' = MarkCategoryDealsSentBatch(category_sent_deals, records).rows
       /\ UNCHANGED <<alert_history, alert_history_rows>>

JobIdle ==
  UNCHANGED <<alerts, nextId, source, pc, localVars, histVars, runVars, schedVars,
              store_error, marked, resubmitted, statVars, raceVars, callVars, pageVars>>

JobStart(deals) ==
  /\ jobpc = "idle"
  /\ job_deals' = deals
  /\ job_batch' = <<>>
  /\ job_ledger0' = BagToSet(category_sent_deals)
  /\ IF deals = <<>> THEN jobpc' = "flush" /\ job_di' = 0
     ELSE jobpc' = "scan" /\ job_di' = 1
  /\ UNCHANGED <<alert_history, alert_history_rows, category_sent_deals, sent>>
  /\ JobIdle

\* is_category_deal_sent(job id, deal id) for the current deal
JobScan ==
  /\ jobpc = "scan"
  /\ LET key == <<category.id, job_deals[job_di]>>
     IN job_batch' =
          IF \/ IsCategoryDealSent(LedgerRows(SentTable), key[1], key[2])
             \/ key \in Range(job_batch)
          THEN job_batch ELSE Append(job_batch, key)
  /\ IF job_di < Len(job_deals) THEN job_di' = job_di + 1 /\ jobpc' = jobpc
     ELSE job_di' = 0 /\ jobpc' = "flush"
  /\ UNCHANGED <<alert_history, alert_history_rows, category_sent_deals, sent,
                 job_deals, job_ledger0>>
  /\ JobIdle

\* mark_category_deals_sent_batch(job_batch)
JobFlush ==
  /\ jobpc = "flush"
  /\ WriteLedger(SentTable, job_batch)
  /\ sent' = sent \cup Range(job_batch)
  /\ jobpc' = "idle"
  /\ job_deals' = <<>>
  /\ job_batch' = <<>>
  /\ UNCHANGED <<job_di, job_ledger0>>
  /\ JobIdle

NextScopes ==
  \/ AddAlert(1, "laptop", NoMax) /\ Untracked
  \/ StartCycle /\ Untracked
  \/ Fetch /\ Untracked
  \/ GetSubscribers /\ Untracked
  \/ Scan /\ Untracked
  \/ FlushRows
  \/ Return /\ Untracked
  \/ \E deals \in SeqsUpTo(Links, 2) : JobStart(deals)
  \/ JobScan
  \/ JobFlush

SpecScopes == Init /\ [][NextScopes]_vars

\* The throttle: one user with up to six watches on six queries, the queries
\* coming in the order of the watches' ids, every watch with a ceiling of 1
\* and the Deal Source failing, answering nothing, or one deal priced 1.50.
ManyQueries == {"q1", "q2", "q3", "q4", "q5", "q6"}

ManyWatches ==
  {[id |-> 1, user_id |-> 1, query |-> "q1", max_price |-> SomeMax(Num(1, 1))],
   [id |-> 2, user_id |-> 1, query |-> "q2", max_price |-> SomeMax(Num(1, 1))],
   [id |-> 3, user_id |-> 1, query |-> "q3", max_price |-> SomeMax(Num(1, 1))],
   [id |-> 4, user_id |-> 1, query |-> "q4", max_price |-> SomeMax(Num(1, 1))],
   [id |-> 5, user_id |-> 1, query |-> "q5", max_price |-> SomeMax(Num(1, 1))],
   [id |-> 6, user_id |-> 1, query |-> "q6", max_price |-> SomeMax(Num(1, 1))]}

\* The queries of tbl in the order of the smallest id watching each.
RECURSIVE ById(_)
ById(tbl) ==
  IF tbl = {} THEN <<>>
  ELSE LET first == CHOOSE a \in tbl : \A b \in tbl : a.id <= b.id
       IN <<first.query>> \o ById({b \in tbl : b.query # first.query})

ThrottleResults ==
  {[success |-> FALSE, deals |-> <<>>],
   [success |-> TRUE, deals |-> <<>>],
   [success |-> TRUE,
    deals |-> <<[link |-> "d1", price |-> SomePrice(<<"1", ",", "5", "0", " ", "z", "l/">>)]>>]}

InitThrottle ==
  /\ InitClock
  /\ InitCalls
  /\ InitView
  /\ nextId = 7
  /\ alerts = ManyWatches
  /\ alert_history = {}
  /\ source = [q \in Queries |-> Unlisted]
  /\ pc = "idle"
  /\ unique_queries = <<>>
  /\ qi = 0
  /\ result = NoResult
  /\ subscribers = <<>>
  /\ di = 0
  /\ si = 0
  /\ notifications = <<>>
  /\ batch_seen = <<>>
  /\ seen_in_cycle = {}
  /\ ledger0 = {}
  /\ emitted = {}
  /\ emittedTwice = {}
  /\ nc_notifications = <<>>
  /\ nc_batch_seen = <<>>
  /\ dupFetched = FALSE
  /\ lost = {}
  /\ cleanRuns = 0
  /\ fetched = NoFetches
  /\ fetchLog = NoLog
  /\ prevFailed = {}
  /\ alert_history_rows = EmptyBag
  /\ category_sent_deals = EmptyBag
  /\ store_error = FALSE
  /\ marked = {}
  /\ sent = {}
  /\ resubmitted = {}
  /\ category_stats = {}
  /\ stats_calls = <<>>
  /\ jobpc = "idle"
  /\ job_deals = <<>>
  /\ job_di = 0
  /\ job_batch = <<>>
  /\ job_ledger0 = {}
  /\ removedEarly = {}
  /\ rejected = {}

NextThrottle ==
  \/ (\E q \in ManyQueries : RemoveAlert(1, q)) /\ Untracked
  \/ StartCycleFrom({ById(alerts)}) /\ Untracked
  \/ (\E r \in ThrottleResults : FetchStep(r)) /\ UNCHANGED source /\ Untracked
  \/ GetSubscribers /\ Untracked
  \/ Scan /\ Untracked
  \/ Sleep /\ Untracked
  \/ Flush /\ Untracked
  \/ Return /\ Untracked

SpecThrottle == InitThrottle /\ [][NextThrottle]_vars

\* The remove command arriving while a cycle is suspended at a fetch or a
\* store operation.  Two users watching one query.
KeepJobs ==
  UNCHANGED <<runVars, schedVars, alert_history_rows, category_sent_deals, store_error,
              marked, sent, resubmitted, statVars, fireVars, callVars, pageVars>>

\* The running cycle has not read the subscribers of the query yet.
SubscribersUnread(query) ==
  \/ pc = "idle"
  \/ \E i \in 1..Len(unique_queries) :
       /\ unique_queries[i] = query
       /\ i > qi \/ (i = qi /\ pc \in {"fetch", "subs"})

RemoveDuringCycle(user_id, query) ==
  /\ RemoveAlertNow(user_id, query)
  /\ removedEarly' =
       IF SubscribersUnread(query)
       THEN removedEarly \cup {a.id : a \in {b \in alerts : b.user_id = user_id
                                                          /\ b.query = query}}
       ELSE removedEarly
  /\ UNCHANGED rejected
  /\ KeepJobs

NextRemoval ==
  \/ (\E s \in SlotsShared, mp \in MaxPrices : AddAlert(s[1], s[2], mp)) /\ Untracked
  \/ \E s \in SlotsShared : RemoveDuringCycle(s[1], s[2])
  \/ StartCycle /\ Untracked
  \/ Fetch /\ Untracked
  \/ GetSubscribers /\ Untracked
  \/ Scan /\ Untracked
  \/ Flush /\ Untracked
  \/ Return /\ removedEarly' = {} /\ UNCHANGED rejected /\ KeepJobs

SpecRemoval == Init /\ [][NextRemoval]_vars

\* parse_schedule as a function: one call on any form of ScheduleForms.
TimeStrings ==
  {<<"0", "9", ":", "0", "0">>,
   <<"9", ":", "0", "0">>,
   <<"2", "3", ":", "5", "9">>,
   <<"2", "4", ":", "0", "0">>,
   <<"0", "0", ":", "6", "0">>,
   <<"0", "9", "0", "0">>,
   <<"0", "9", ":", "0", "0", "\n">>,
   <<"9", ":", "5">>,
   <<>>,
   <<"a", "b", ":", "c", "d">>,
   <<"1", "9", ":", "0", "5">>,
   <<"2", "9", ":", "0", "0">>,
   <<"0", "9", ":", "0", "0", " ">>,
   <<" ", "0", "9", ":", "0", "0">>,
   <<"0", "0", "9", ":", "0", "0">>,
   <<"2", ":", "3", "0">>}
FrequencyStrings ==
  {<<"d", "a", "i", "l", "y">>,
   <<"D", "a", "i", "l", "y">>,
   <<"W", "E", "E", "K", "L", "Y">>,
   <<"b", "i", "w", "e", "e", "k", "l", "y">>,
   <<"m", "o", "n", "t", "h", "l", "y">>,
   <<"h", "o", "u", "r", "l", "y">>,
   <<>>,
   <<"M", "o", "n", "t", "h", "l", "y">>}
DayStrings ==
  {None} \cup {Some(d) : d \in
    {<<>>,
     <<"m", "o", "n", "d", "a", "y">>,
     <<"S", "u", "n", "d", "a", "y">>,
     <<"f", "u", "n", "d", "a", "y">>}}
DateValues == {None} \cup {Some(n) : n \in {-1, 0, 1, 31, 32}}

ScheduleForms ==
  [frequency : FrequencyStrings, time : TimeStrings, day : DayStrings, date : DateValues]

InitParse ==
  /\ InitEngine
  /\ InitClock
  /\ InitView
  /\ args \in ScheduleForms
  /\ returned = NoReturn
  /\ outbound = <<>>

CallParseSchedule ==
  /\ returned = NoReturn
  /\ returned' = ParseSchedule(args.frequency, args.time, args.day, args.date)
  /\ UNCHANGED <<args, outbound>>

NextParse ==
  CallParseSchedule
    /\ UNCHANGED <<storeVars, pc, localVars, histVars, runVars, schedVars,
                   alert_history_rows, category_sent_deals, store_error, marked, sent,
                   resubmitted, statVars, fireVars, raceVars, pageVars>>

SpecParse == InitParse /\ [][NextParse]_vars

\* validate_slug as a function: one call on any slug of SlugStrings, the Deal
\* Source answering anything.
RECURSIVE Repeat(_, _)
Repeat(c, n) == IF n = 0 THEN <<>> ELSE <<c>> \o Repeat(c, n - 1)

SlugStrings ==
  SeqsUpTo({"a", "Z", "7", "-", " ", "\n"}, 3)
    \cup {Repeat("a", SlugMaxLength), Repeat("a", SlugMaxLength + 1),
          Repeat("a", SlugMaxLength - 1) \o <<"\n">>, Repeat("a", SlugMaxLength) \o <<"\n">>,
          <<"l/", "o", "d", "z">>}

GroupResults ==
  {[success |-> FALSE, deals |-> <<>>], [success |-> TRUE, deals |-> <<>>],
   [success |-> TRUE, deals |-> <<"d1">>]}

InitSlug ==
  /\ InitEngine
  /\ InitClock
  /\ InitView
  /\ args \in SlugStrings
  /\ returned = NoReturn
  /\ outbound = <<>>

CallValidateSlug ==
  /\ returned = NoReturn
  /\ \E answer \in GroupResults :
       LET call == ValidateSlug(args, answer)
       IN /\ returned' = call.returned
          /\ outbound' = outbound \o call.requests
  /\ UNCHANGED args

NextSlug ==
  CallValidateSlug
    /\ UNCHANGED <<storeVars, pc, localVars, histVars, runVars, schedVars,
                   alert_history_rows, category_sent_deals, store_error, marked, sent,
                   resubmitted, statVars, fireVars, raceVars, pageVars>>

SpecSlug == InitSlug /\ [][NextSlug]_vars

\* _parse_price as a function: one call on any price text of PriceTexts.
PriceTexts ==
  {NoPrice}
    \cup {SomePrice(t) : t \in SeqsUpTo({"1", "5", ",", " ", "nbsp", "z", "l/"}, 3)}
    \cup {SomePrice(t) : t \in
           {<<"2", "9", ",", "9", "9", " ", "z", "l/">>,
            <<"D", "a", "r", "m", "o", "w", "a">>,
            <<"g", "a", "r", "b", "a", "g", "e">>,
            <<"F", "R", "E", "E", " ", "5">>,
            <<"5", " ", "d", "a", "r", "m", "o">>,
            <<"1", " ", "2", "9", "9", ",", "9", "9", " ", "z", "l/">>,
            <<"1", "nbsp", "2", "9", "9", ",", "9", "9", " ", "z", "l/">>,
            <<"B", "e", "z", "p", "l/", "a", "t", "n", "i", "e">>,
            <<"1", ".", "2", "9", "9", ",", "9", "9", " ", "z", "l/">>,
            <<"-", "5", " ", "Z", "L/">>,
            <<"\t", "1", "5", "\n">>}}

InitPrice ==
  /\ InitEngine
  /\ InitClock
  /\ InitView
  /\ args \in PriceTexts
  /\ returned = NoReturn
  /\ outbound = <<>>

CallParsePrice ==
  /\ returned = NoReturn
  /\ returned' = [raised |-> FALSE, value |-> ParsePrice(args)]
  /\ UNCHANGED <<args, outbound>>

NextPrice ==
  CallParsePrice
    /\ UNCHANGED <<storeVars, pc, localVars, histVars, runVars, schedVars,
                   alert_history_rows, category_sent_deals, store_error, marked, sent,
                   resubmitted, statVars, fireVars, raceVars, pageVars>>

SpecPrice == InitPrice /\ [][NextPrice]_vars

\* One user changing the ceiling of one watch between cycles, the pairs the
\* price test rejected kept.
ScanRecording ==
  /\ Scan
  /\ LET sub == subscribers[si]
         deal == result.deals[di]
         key == <<sub.id, deal.link>>
     IN rejected' =
          IF /\ key \notin seen_in_cycle
             /\ ~IsDealSeenByAlert(alert_history, sub.id, deal.link)
             /\ ~PriceOk(sub.max_price, ParsePrice(deal.price))
          THEN rejected \cup {key} ELSE rejected
  /\ UNCHANGED removedEarly
  /\ KeepJobs

NextCeiling ==
  \/ (\E mp \in MaxPrices : AddAlert(1, "laptop", mp)) /\ Untracked
  \/ RemoveAlert(1, "laptop") /\ Untracked
  \/ StartCycle /\ Untracked
  \/ Fetch /\ Untracked
  \/ GetSubscribers /\ Untracked
  \/ ScanRecording
  \/ Flush /\ Untracked
  \/ Return /\ Untracked

SpecCeiling == Init /\ [][NextCeiling]_vars

\* ------------------------------------------------------------ the paginator
\* views.py:67-83  _refresh_view at page `page`: the disabled flags are set
\* first, then self.deals[page] is read; a list index outside
\* -total_pages .. total_pages - 1 raises IndexError.
RefreshView(page) ==
  [flags |-> Flags(page = 0, page = total_pages - 1),
   raised |-> page >= total_pages \/ page < 0 - total_pages]

\* views.py:91-99  on_prev (step = -1) and on_next (step = 1): the page moves,
\* the view is refreshed and, unless that raised, the message is edited.
Turn(button, step) ==
  /\ clicks # <<>>
  /\ Head(clicks) = button
  /\ Len(edits) < MaxInFlight
  /\ clicks' = Tail(clicks)
  /\ current_page' = current_page + step
  /\ LET view == RefreshView(current_page + step)
     IN /\ btn_prev' = view.flags.prev
        /\ btn_next' = view.flags.next
        /\ view_error' = (view_error \/ view.raised)
        /\ edits' = IF view.raised THEN edits ELSE Append(edits, view.flags)
  /\ UNCHANGED <<total_pages, shown>>

OnPrev == Turn("prev", -1)

OnNext == Turn("next", 1)

\* The user presses a button the message shows as enabled.
Click(button) ==
  /\ Len(clicks) < MaxInFlight
  /\ ~shown[button]
  /\ current_page + Len(clicks) < 2 * MaxPages
  /\ current_page - Len(clicks) > 0 - 2 * MaxPages
  /\ clicks' = Append(clicks, button)
  /\ UNCHANGED <<current_page, total_pages, btn_prev, btn_next, shown, edits, view_error>>

\* The edited message reaches the user.
Show ==
  /\ edits # <<>>
  /\ shown' = Head(edits)
  /\ edits' = Tail(edits)
  /\ UNCHANGED <<current_page, total_pages, btn_prev, btn_next, clicks, view_error>>

\* views.py:9-25  DealPaginator(deals, author) on a list of 1 to MaxPages deals,
\* sent with its first page.
InitPaginator ==
  /\ InitEngine
  /\ InitClock
  /\ InitCalls
  /\ total_pages \in 1..MaxPages
  /\ current_page = 0
  /\ btn_prev = TRUE
  /\ btn_next = (total_pages = 1)
  /\ shown = Flags(TRUE, total_pages = 1)
  /\ clicks = <<>>
  /\ edits = <<>>
  /\ view_error = FALSE

NextPaginator ==
  (\/ \E button \in {"prev", "next"} : Click(button)
   \/ OnPrev
   \/ OnNext
   \/ Show)
    /\ UNCHANGED <<storeVars, pc, localVars, histVars, runVars, schedVars,
                   alert_history_rows, category_sent_deals, store_error, marked, sent,
                   resubmitted, statVars, fireVars, raceVars, callVars>>

SpecPaginator == InitPaginator /\ [][NextPaginator]_vars

\* ---------------------------------------------------------------- properties
NotifiedTimes(ns, k) == Cardinality({i \in 1..Len(ns) : Key(ns[i]) = k})

\* C1: over any number of cycles, with the fetched lists changing between
\* cycles and a deal allowed to repeat inside one fetch result, no
\* (watch id, deal id) pair is returned in two notifications.  (Spec)
C1_NoDuplicateNotification == emittedTwice = {}

\* A cycle that returned a notification for a deal listed twice, for a watch
\* that was already notified of another deal in an earlier cycle.
C1_Witness ==
  /\ pc = "done"
  /\ HasRepeat(result.deals)
  /\ \E a \in alerts :
       /\ <<a.id, result.deals[1].link>> \in Keys(notifications)
       /\ \E l \in Links : <<a.id, l>> \in emitted \cap ledger0

\* C3: two watches of one query with w1.max_price < w2.max_price and a fetched
\* deal, in the ledger of neither, priced above w1's ceiling and at most w2's:
\* the cycle returns a notification for (w2, deal) and none for (w1, deal).  (Spec)
Between(w1, w2, deal) ==
  /\ w1.max_price.some /\ w2.max_price.some
  /\ Lt(w1.max_price.v, w2.max_price.v)
  /\ Lt(w1.max_price.v, ParsePrice(deal.price))
  /\ Leq(ParsePrice(deal.price), w2.max_price.v)
  /\ <<w1.id, deal.link>> \notin ledger0
  /\ <<w2.id, deal.link>> \notin ledger0

C3_OnlyTheHigherCeilingNotified ==
  (pc = "done" /\ unique_queries # <<>> /\ result.success) =>
    \A w1, w2 \in GetAlertsByQuery(alerts, unique_queries[qi]) :
      \A i \in 1..Len(result.deals) :
        Between(w1, w2, result.deals[i]) =>
          /\ \E j \in 1..Len(notifications) :
               /\ Key(notifications[j]) = <<w2.id, result.deals[i].link>>
               /\ notifications[j].user_id = w2.user_id
               /\ notifications[j].deal = result.deals[i]
          /\ <<w1.id, result.deals[i].link>> \notin Keys(notifications)

C3_Witness ==
  /\ pc = "done" /\ unique_queries # <<>> /\ result.success
  /\ \E w1, w2 \in GetAlertsByQuery(alerts, unique_queries[qi]) :
       \E i \in 1..Len(result.deals) : Between(w1, w2, result.deals[i])

\* C4: when a cycle returns, the pairs it added to the ledger are exactly the
\* pairs it returned a notification for, each notified once.  (Spec)
C4_MarksAreTheNotifications ==
  pc = "done" =>
    /\ alert_history \ ledger0 = Keys(notifications)
    /\ \A k \in Keys(notifications) : NotifiedTimes(notifications, k) = 1

\* One watch with a ceiling, one fetched deal priced under it, an empty ledger:
\* one notification, and the ledger holds that (watch id, deal id).
C4_Witness ==
  /\ pc = "done"
  /\ ledger0 = {}
  /\ Len(result.deals) = 1
  /\ Len(notifications) = 1
  /\ \E a \in alerts :
       /\ alerts = {a}
       /\ a.max_price.some
       /\ Lt(ParsePrice(result.deals[1].price), a.max_price.v)
       /\ alert_history = {<<a.id, result.deals[1].link>>}

\* C8 as stated: with seen_in_cycle and without it, a cycle returns the same
\* notifications and commits the same marks, for every input.
C8_Original ==
  pc = "done" =>
    /\ nc_notifications = notifications
    /\ MarkDealsSeenBatch(ledger0, nc_batch_seen) = alert_history

\* C8: with seen_in_cycle and without it, a cycle commits the same marks and
\* notifies the same pairs; the returned notifications are the same when no
\* fetch of the cycle listed a deal twice.  (Spec)
C8_SameUnlessADealRepeats ==
  pc = "done" =>
    /\ MarkDealsSeenBatch(ledger0, nc_batch_seen) = alert_history
    /\ Keys(nc_notifications) = Keys(notifications)
    /\ ~dupFetched => nc_notifications = notifications

\* A cycle without a repeated deal in which the cache took both a notified
\* pair and a pair the ledger had.
C8_Witness ==
  /\ pc = "done"
  /\ ~dupFetched
  /\ notifications # <<>>
  /\ seen_in_cycle \cap ledger0 # {}

\* C5 as stated: at every point where the process can die or the cycle can be
\* cancelled, a pair whose notification is computed and not yet returned for
\* delivery is not marked in the ledger, and no crash leaves a pair marked and
\* undelivered.  (SpecCrash)
C5_AtLeastOnce ==
  /\ pc # "idle" => Keys(notifications) \cap alert_history = {}
  /\ lost = {}

C2_SecondRunIsEmpty ==
  (pc = "done" /\ cleanRuns >= 2) =>
    /\ notifications = <<>>
    /\ alert_history = ledger0

\* The second of two such cycles, the first having notified two pairs that the
\* second met in the ledger.
C2_Witness ==
  /\ pc = "done"
  /\ cleanRuns = 2
  /\ Cardinality(seen_in_cycle \cap ledger0) >= 2
  /\ notifications = <<>>

\* C7: in a cycle where the fetch of a query fails, every query of the cycle is
\* fetched exactly once (the failed one too, also when it failed in the
\* previous cycle), nothing is notified or marked for the failed query, and the
\* notifications and marks are those of the same cycle with an empty deal list
\* in place of the failure.  (SpecSolo)
AsIfEmpty(r) == IF r.success THEN r ELSE [success |-> TRUE, deals |-> <<>>]

Expected ==
  {k \in {a.id : a \in alerts} \X Links :
     \E a \in alerts : \E i \in 1..Len(AsIfEmpty(fetchLog[a.query]).deals) :
       LET d == AsIfEmpty(fetchLog[a.query]).deals[i]
       IN /\ k = <<a.id, d.link>>
          /\ k \notin ledger0
          /\ PriceOk(a.max_price, ParsePrice(d.price))}

WatchesOf(qs) == {a.id : a \in {b \in alerts : b.query \in qs}}

C7_FailedFetchSkipsOnlyItsQuery ==
  pc = "done" =>
    /\ \A q \in Range(unique_queries) : fetched[q] = 1
    /\ \A i \in 1..Len(notifications) : notifications[i].query \notin Failed
    /\ \A k \in (alert_history \ ledger0) \cup Range(batch_seen) :
         k[1] \notin WatchesOf(Failed)
    /\ Keys(notifications) = Expected
    /\ alert_history \ ledger0 = Expected

\* The first query of the cycle failed, as it had in the previous cycle, and
\* the other query was still fetched and notified.
C7_Witness ==
  /\ pc = "done"
  /\ Len(unique_queries) = 2
  /\ unique_queries[1] \in Failed \cap prevFailed
  /\ fetched[unique_queries[1]] = 1
  /\ \E i \in 1..Len(notifications) : notifications[i].query = unique_queries[2]

\* C9 as stated: whatever the offset between the store's clock and the local
\* clock, a job does not fire less than 30 minutes after its last fire.
\* (SpecSched)
C9_NoRefireWithinDebounce ==
  (prevFire.some /\ lastFire.some) => lastFire.t - prevFire.t >= DebounceMinutes * 60

\* C10: a daily job ticked once in every minute, at any second of it, has been
\* judged due at a tick of the day when the day's last tick is over, for
\* schedule times at both ends of the day.  (SpecSched)
LastTickOfDay == now % DaySeconds >= DaySeconds - 60

Drift == Abs(now - ScheduledToday(category, now))

C11_TimeWindowGate ==
  verdict.done =>
    /\ Drift >= 120 => ~verdict.due
    /\ (Drift < 120 /\ category.schedule_type = "daily"
          /\ category.last_run = NoLastRun) => verdict.due

\* A 09:00 daily job without last_run is due at second 119 after 09:00, and
\* the call at 23:57:01 for a 23:59 job, 119 seconds early, was made too.
C11_Witness ==
  /\ verdict.done /\ verdict.due
  /\ category.schedule_type = "daily" /\ category.last_run = NoLastRun
  /\ ScheduleHour(category.schedule_time) = 9
  /\ now = At(14, 9, 1, 59)

\* C12: a biweekly job called on its weekday inside the time window is not due
\* when fewer than 13 whole days have passed since last_run, and is due when
\* last_run is absent or 14 days old; and whatever the offset between the two
\* clocks, it is not due less than 14 calendar days after a fire on its weekday
\* that stamped last_run.  (SpecEval)
OnItsDay(cat, t) ==
  /\ cat.schedule_day \in DOMAIN DayMap
  /\ Weekday(t) = DayMap[cat.schedule_day]
  /\ WithinTimeWindow(cat, t)

C12_BiweeklyGate ==
  (verdict.done /\ category.schedule_type = "biweekly") =>
    /\ (OnItsDay(category, now) /\ category.last_run.kind = "ts"
          /\ (now - category.last_run.t) \div DaySeconds < 13) => ~verdict.due
    /\ (OnItsDay(category, now) /\ category.last_run = NoLastRun) => verdict.due
    /\ (OnItsDay(category, now) /\ category.last_run.kind = "ts"
          /\ now - category.last_run.t = 14 * DaySeconds) => verdict.due
    /\ \A off \in Offsets :
         LET fire == category.last_run.t + off
         IN (/\ category.last_run.kind = "ts"
             /\ OnItsDay(category, fire)
             /\ fire <= now
             /\ DayOf(now) - DayOf(fire) < 14) => ~verdict.due

\* A Monday 09:00 biweekly job stamped 119 seconds before 09:00 of day 0 by a
\* store clock one hour behind, called 119 seconds after 09:00 of the same day:
\* 63 minutes lie between the two values, the job is not due.
C12_Witness ==
  /\ verdict.done /\ ~verdict.due
  /\ category.schedule_type = "biweekly"
  /\ category.schedule_day = "monday"
  /\ ScheduleHour(category.schedule_time) = 9
  /\ category.last_run = Stamp(At(0, 9, 0, 0) - 119 - 3600)
  /\ now = At(0, 9, 0, 0) + 119

\* C13 as stated: a job is never fired while its stored status is paused, also
\* when it is paused after the tick has read the active jobs.  (SpecPause)
C13_PausedNeverFired == ~firedPaused

\* C14: on a job whose last_run is not a timestamp, should_run_now raises
\* nothing and returns what it returns on the same job with last_run unset,
\* for every schedule type and clock value.  (SpecEval)
Unset(cat) == [cat EXCEPT !.last_run = NoLastRun]

C14_MalformedLastRunIsAbsent ==
  (verdict.done /\ category.last_run = BadLastRun) =>
    /\ verdict.raised = "none"
    /\ verdict.due = ShouldRunNow(Unset(category), now)
    /\ Raised(Unset(category), now) = "none"

\* A biweekly job with a malformed last_run, on its weekday inside the window:
\* both parse attempts fail and the job is due.
C14_Witness ==
  /\ verdict.done /\ verdict.due
  /\ category.last_run = BadLastRun
  /\ category.schedule_type = "biweekly"
  /\ OnItsDay(category, now)

\* C15: when the time-window and debounce checks pass, a weekly or biweekly
\* job is due only on the weekday it names, a monthly job is due exactly when
\* the day of the month is its schedule date, and a job of any other schedule
\* type than daily, weekly, biweekly, monthly is not due.  (SpecEval)
WeekdayName(t) ==
  <<"monday", "tuesday", "wednesday", "thursday", "friday", "saturday", "sunday">>
    [Weekday(t) + 1]

GatesPassed == WithinTimeWindow(category, now) /\ ~RanRecently(category, now)

C15_FrequencyGate ==
  (verdict.done /\ GatesPassed) =>
    /\ (category.schedule_type \in {"weekly", "biweekly"} /\ verdict.due)
          => category.schedule_day = WeekdayName(now)
    /\ category.schedule_type = "weekly"
          => (verdict.due <=> category.schedule_day = WeekdayName(now))
    /\ category.schedule_type = "monthly"
          => (verdict.due <=> DayOfMonth(now) = category.schedule_date)
    /\ category.schedule_type \notin {"daily", "weekly", "biweekly", "monthly"}
          => ~verdict.due

\* A Thursday weekly job is due on day 10, a Thursday.
C15_Witness ==
  /\ verdict.done /\ verdict.due
  /\ category.schedule_type = "weekly"
  /\ category.schedule_day = "thursday"
  /\ DayOf(now) = 10

\* C16: there is at most one watch per (user id, query); a watch command on a
\* pair that has a watch keeps the watch's id and leaves the ledger as it is,
\* and no pair is notified twice, also after the ceiling was changed.  (Spec)
SameSlot(a, b) == a.user_id = b.user_id /\ a.query = b.query

C16_OneWatchPerUserAndQuery ==
  /\ [](\A a, b \in alerts : SameSlot(a, b) => a = b)
  /\ [][alerts' # alerts =>
          /\ \A a \in alerts : \A b \in alerts' : SameSlot(a, b) => b.id = a.id
          /\ alert_history' = alert_history]_vars
  /\ [](emittedTwice = {})

\* A watch that was notified of the deal priced 1.50, had its ceiling set to 1
\* afterwards, and met the deal again in a later cycle without a notification.
C16_Witness ==
  /\ pc = "done"
  /\ \E a \in alerts : \E i \in 1..Len(result.deals) :
       /\ a.max_price = SomeMax(Num(1, 1))
       /\ Lt(a.max_price.v, ParsePrice(result.deals[i].price))
       /\ <<a.id, result.deals[i].link>> \in emitted \cap ledger0
       /\ notifications = <<>>

\* C17: a batch write to either ledger that holds pairs already recorded, or
\* one pair twice, leaves one row per pair and raises no error; a pair given to
\* a write is seen from then on, whatever writes, watch commands and cycles
\* follow.  (SpecStore)
OneRowPerPair(rows) == \A p \in BagToSet(rows) : CopiesIn(p, rows) = 1

C17_WritesAreIdempotentAndPermanent ==
  /\ ~store_error
  /\ OneRowPerPair(alert_history_rows)
  /\ OneRowPerPair(category_sent_deals)
  /\ BagToSet(alert_history_rows) = alert_history
  /\ \A p \in marked : IsDealSeenByAlert(alert_history, p[1], p[2])
  /\ \A p \in sent : IsCategoryDealSent(category_sent_deals, p[1], p[2])

\* Both ledgers were given a recorded pair and a pair twice, the watch was
\* removed and added again, and a cycle has just skipped a recorded deal.
C17_Witness ==
  /\ resubmitted = {"seen", "sent"} \X {"recorded", "twice"}
  /\ nextId > 2
  /\ pc = "done"
  /\ notifications = <<>>
  /\ \E i \in 1..Len(result.deals) : \E a \in alerts :
       <<a.id, result.deals[i].link>> \in marked

\* C18: after any sequence of update_category_stats calls there is one row
\* per (job id, date), for the pairs that had a call and no others, and each of
\* its three counters is the sum of the values the calls for that job on that
\* date passed, in whatever order they came.  (SpecStats)
RECURSIVE SumOf(_, _, _)
SumOf(calls, key, field) ==
  IF calls = <<>> THEN 0
  ELSE (IF StatsKey(calls[1]) = key THEN calls[1][field] ELSE 0)
         + SumOf(Tail(calls), key, field)

C18_StatsAccumulate ==
  /\ \A r, q \in category_stats : StatsKey(r) = StatsKey(q) => r = q
  /\ {StatsKey(r) : r \in category_stats} = {StatsKey(c) : c \in Range(stats_calls)}
  /\ \A r \in category_stats :
       \A field \in {"deals_found", "deals_sent", "scrape_errors"} :
         r[field] = SumOf(stats_calls, StatsKey(r), field)

\* Job 1 had two calls with different values on one date and a call on the
\* other date.
C18_Witness ==
  /\ Len(stats_calls) = MaxCalls
  /\ \E r, q \in category_stats :
       /\ r.category_id = 1 /\ q.category_id = 1 /\ r.date # q.date
       /\ \E i, j \in 1..Len(stats_calls) :
            /\ i # j
            /\ StatsKey(stats_calls[i]) = StatsKey(r)
            /\ StatsKey(stats_calls[j]) = StatsKey(r)
            /\ stats_calls[i].deals_found # stats_calls[j].deals_found

\* C19: with an alert cycle and a job fire interleaved at their store
\* operations, each ledger holds what its own cycles marked and nothing else:
\* the watch-scoped ledger is not changed between the start of an alert cycle
\* and its flush and ends as the cycle alone leaves it, the same for the
\* job-scoped ledger and the fire, and a deal marked under the job's id is not
\* seen under the equal watch id, nor the reverse.  (SpecScopes)
AloneMarks ==
  {k \in {a.id : a \in alerts} \X Links :
     \E a \in alerts : \E i \in 1..Len(result.deals) :
       /\ k = <<a.id, result.deals[i].link>>
       /\ k \notin ledger0
       /\ PriceOk(a.max_price, ParsePrice(result.deals[i].price))}

AloneSent ==
  {<<category.id, job_deals[i]>> : i \in 1..Len(job_deals)} \ job_ledger0

C19_ScopesAreDisjoint ==
  /\ alert_history = marked
  /\ BagToSet(category_sent_deals) = sent
  /\ pc \in {"fetch", "subs", "scan", "flush"} => alert_history = ledger0
  /\ pc = "done" => alert_history = ledger0 \cup AloneMarks
  /\ jobpc \in {"scan", "flush"} => BagToSet(category_sent_deals) = job_ledger0
  /\ jobpc = "flush" => Range(job_batch) = AloneSent
  /\ \A p \in sent \ marked : ~IsDealSeenByAlert(alert_history, p[1], p[2])
  /\ \A p \in marked \ sent : ~IsCategoryDealSent(category_sent_deals, p[1], p[2])

\* The alert cycle has flushed a pair (1, d) while a fire of job 1, begun on an
\* empty ledger, is about to mark the same pair, and the other deal is marked
\* under the job's id only.
C19_Witness ==
  /\ pc = "done"
  /\ jobpc = "flush"
  /\ \E k \in Keys(notifications) : k \in Range(job_batch) /\ k \in alert_history
  /\ sent \ marked # {}

\* C20: in a cycle with more than 5 distinct queries every fetch but the
\* first comes straight after the delay, whatever the fetch before it gave;
\* in a cycle with 5 or fewer distinct queries there is no delay.
\* (SpecThrottle)
C20_DelayBetweenFetches ==
  /\ [](pc = "sleep" => Len(unique_queries) > SleepThreshold)
  /\ [][(pc' = "fetch" /\ qi' > 1 /\ Len(unique_queries') > SleepThreshold)
          => pc = "sleep"]_vars

\* C21: in one cycle the Deal Source is asked once for each distinct query
\* among the watches at cycle start and for no other, however many watches
\* share the query, and every watch of the query is evaluated against that one
\* answer.  (SpecListed)
C21_OneFetchPerQuery ==
  /\ \A q \in Queries : fetched[q] <= 1
  /\ \A i, j \in 1..Len(unique_queries) : unique_queries[i] = unique_queries[j] => i = j
  /\ pc # "idle" => Range(unique_queries) = GetAllUniqueQueries(alerts)
  /\ pc \in {"flush", "done"} =>
       \A q \in Queries : fetched[q] = (IF q \in GetAllUniqueQueries(alerts) THEN 1 ELSE 0)
  /\ pc = "done" => Keys(notifications) = Expected

\* Two watches on one query, one fetch, one notification for each watch.
C21_Witness ==
  /\ pc = "done"
  /\ Cardinality(GetAlertsByQuery(alerts, "laptop")) = 2
  /\ fetched["laptop"] = 1
  /\ {notifications[i].alert_id : i \in 1..Len(notifications)} = {a.id : a \in alerts}

\* C22: with remove commands arriving during a cycle, a watch removed before
\* the cycle read the subscribers of its query has no notification, no staged
\* mark and no new ledger record from the cycle, and a query found without
\* subscribers after its fetch is left with nothing emitted or staged.
\* (SpecRemoval)
C22_RemovedWatchIsSkipped ==
  /\ [](\A k \in Keys(notifications) \cup Range(batch_seen) \cup (alert_history \ ledger0) :
          pc # "idle" => k[1] \notin removedEarly)
  /\ [][(pc = "subs" /\ pc' # "subs" /\ subscribers' = <<>>)
          => /\ notifications' = notifications
             /\ batch_seen' = batch_seen
             /\ alert_history' = alert_history
             /\ pc' \in {"fetch", "flush"}]_vars

\* The only watch of the query was removed between the fetch, which listed a
\* deal, and the read of the subscribers; the cycle ended with nothing.
C22_Witness ==
  /\ pc = "done"
  /\ unique_queries = <<"laptop">>
  /\ result.success
  /\ result.deals # <<>>
  /\ alerts = {}
  /\ removedEarly # {}
  /\ subscribers = <<>>
  /\ notifications = <<>>
  /\ alert_history = ledger0

\* C23: parse_schedule accepts a time string exactly when it is two digits, a
\* colon and two digits, with the hour in 0..23 and the minute in 0..59; every
\* other string is rejected with the time-format reason.  (SpecParse)
StrictTime(time) ==
  /\ Len(time) = 5
  /\ time[1] \in Digits
  /\ time[2] \in Digits
  /\ time[3] = ":"
  /\ time[4] \in Digits
  /\ time[5] \in Digits
  /\ DigitsValue(SubSeq(time, 1, 2)) <= 23
  /\ DigitsValue(SubSeq(time, 4, 5)) <= 59

TimeRejected == ~returned.raised /\ ~returned.value.ok /\ returned.value.reason = "time-format"

C23_StrictTimeFormat ==
  returned # NoReturn => (TimeRejected <=> ~StrictTime(args.time))

\* C24: for a time the time check lets through, parse_schedule admits a form
\* exactly when its frequency is daily, weekly, biweekly or monthly in any
\* letter case, a weekly or biweekly form has a day, a monthly form has a date
\* in 1..31, and a day that is given is a weekday name in any letter case; a
\* rejection returns no schedule and a reason, an admission a schedule and no
\* reason, and no call raises.  (SpecParse)
Given(day) == day.some /\ day.v # <<>>

Admissible(form) ==
  /\ TimePatternMatch(form.time)
  /\ \E f \in ValidFrequencies : Lower(form.frequency) = f
  /\ Lower(form.frequency) \in {<<"w", "e", "e", "k", "l", "y">>, <<"b", "i", "w", "e", "e", "k", "l", "y">>} => Given(form.day)
  /\ Lower(form.frequency) = <<"m", "o", "n", "t", "h", "l", "y">> =>
       form.date.some /\ form.date.v >= 1 /\ form.date.v <= 31
  /\ Given(form.day) => \E d \in ValidDays : Lower(form.day.v) = d

C24_AdmitsExactlyTheValidForms ==
  returned # NoReturn =>
    /\ ~returned.raised
    /\ returned.value.ok <=> Admissible(args)
    /\ returned.value.ok => returned.value.schedule.some /\ returned.value.reason = "None"
    /\ ~returned.value.ok => ~returned.value.schedule.some /\ returned.value.reason # "None"

\* A weekly form in capitals with a capitalised day was admitted, its type and
\* day in lower case.
C24_Witness ==
  /\ returned # NoReturn
  /\ args.frequency = <<"W", "E", "E", "K", "L", "Y">>
  /\ args.day = Some(<<"S", "u", "n", "d", "a", "y">>)
  /\ returned.value.ok
  /\ returned.value.schedule.v.type = <<"w", "e", "e", "k", "l", "y">>
  /\ returned.value.schedule.v.day = Some(<<"s", "u", "n", "d", "a", "y">>)

\* C25: validate_slug asks the Deal Source only for slugs made of lowercase
\* ASCII letters, digits and hyphens, 1 to 50 characters long; every other
\* slug is rejected with a reason and no request.  (SpecSlug)
WellFormedSlug(slug) ==
  /\ Len(slug) >= 1
  /\ Len(slug) <= 50
  /\ \A i \in 1..Len(slug) : slug[i] \in LowerLetters \cup Digits \cup {"-"}

C25_NoRequestForMalformedSlug ==
  /\ \A i \in 1..Len(outbound) : WellFormedSlug(outbound[i])
  /\ (returned # NoReturn /\ ~WellFormedSlug(args)) =>
       ~returned.value.ok /\ returned.value.reason \in {"format", "too-long"}

\* C26: _parse_price does not raise; it gives 0.0 for an absent or empty
\* price, 0.0 for a text with a free-token whatever digits it has, 0.0 for a
\* text that is no number once whitespace and the currency marker are removed,
\* and otherwise that number with the comma read as the decimal separator.
\* (SpecPrice)
FreeTokens ==
  {<<"d", "a", "r", "m">>, <<"f", "r", "e", "e">>, <<"b", "e", "z", "p", "l/", "a", "t", "n">>}

\* The text in lower case without its whitespace and currency marker, the
\* comma turned into a point.
Bare(text) ==
  Replace(SelectSeq(Replace(Lower(text), <<"z", "l/">>, <<>>),
                    LAMBDA c : c \notin Whitespace),
          <<",">>, <<".">>)

SameNumber(a, b) == a.n * b.d = b.n * a.d

NormalizedAsSpecified(price_str) ==
  IF ~price_str.some \/ price_str.v = <<>> THEN Zero
  ELSE IF \E token \in FreeTokens : Contains(Bare(price_str.v), token) THEN Zero
  ELSE IF ParseFloat(Bare(price_str.v)).ok THEN ParseFloat(Bare(price_str.v)).val
  ELSE Zero

C26_NormalizerContract ==
  returned # NoReturn =>
    /\ ~returned.raised
    /\ SameNumber(returned.value, NormalizedAsSpecified(args))

\* C27: a pair the price test rejected is neither staged nor recorded in the
\* ledger as long as it was not notified; when a later cycle fetches the deal
\* and the watch's ceiling, raised or cleared since, lets its price through,
\* that cycle returns one notification for the pair, and no pair is ever
\* notified twice.  (SpecCeiling)
C27_RejectedStaysEligible ==
  /\ \A k \in rejected \ (emitted \cup Keys(notifications)) :
       k \notin alert_history /\ k \notin Range(batch_seen)
  /\ pc = "done" =>
       \A a \in alerts : \A i \in 1..Len(result.deals) :
         LET k == <<a.id, result.deals[i].link>>
         IN (k \in rejected \ emitted /\ PriceOk(a.max_price, ParsePrice(result.deals[i].price)))
              => NotifiedTimes(notifications, k) = 1 /\ k \in alert_history
  /\ emittedTwice = {}

\* The deal priced 1.50 was rejected under a ceiling of 1; the ceiling is now 2
\* or absent and the cycle that just ended notified the pair, for the first time.
C27_Witness ==
  /\ pc = "done"
  /\ \E a \in alerts : \E i \in 1..Len(result.deals) :
       LET k == <<a.id, result.deals[i].link>>
       IN /\ k \in rejected \ emitted
          /\ k \notin ledger0
          /\ a.max_price # SomeMax(Num(1, 1))
          /\ NotifiedTimes(notifications, k) = 1

\* C28: for a paginator on a non-empty deal list, after any sequence of
\* on_prev and on_next callbacks, two clicks sent before the message is shown
\* again included, current_page is within 0..total_pages-1, the previous
\* button is disabled exactly at page 0 and the next button exactly at the
\* last page.  (SpecPaginator)
C28_PageWithinBounds ==
  /\ current_page \in 0..(total_pages - 1)
  /\ btn_prev = (current_page = 0)
  /\ btn_next = (current_page = total_pages - 1)
  /\ ~view_error

====
